---- MODULE Spec2Model ----
(***************************************************************************)
(* audx: decoder -> (filter) -> encoder FIFO -> encoder/muxer pipeline.    *)
(*                                                                         *)
(* A sample is one multi-channel PCM sample; it is modelled by a natural   *)
(* number naming its position in the decoded stream, so that loss,         *)
(* duplication and reordering are visible.  Calls into the FFmpeg          *)
(* libraries are modelled by their outcome: each may succeed or fail, the  *)
(* outcome being an input of the action that makes the call.               *)
(***************************************************************************)
EXTENDS Integers, Sequences, FiniteSets, TLC

\* ---------------------------------------------------------------- bounds
\* number of packets the input file holds at most
MaxReads == 3
\* samples in one decoded (or filtered) block at most
MaxBlock == 2
\* largest frame size the codec reports
MaxFrameSize == 3
\* width in bits of the integers that stand for int64_t: the arithmetic on
\* bit rates is the arithmetic of the code on a shorter word
WordBits == 20

\* ------------------------------------------------------------ error codes
ENOMEM == 12
EINVAL == 22
EAGAIN == 11
AVERROR(e) == 0 - e
\* AVERROR_EOF is FFERRTAG('E','O','F',' '), distinct from every AVERROR(errno)
AVERROR_EOF == AVERROR(541478725)

Min(a, b) == IF a < b THEN a ELSE b

\* ------------------------------------------------------------------ frames
\* AVFrame *: NULL, or a frame carrying nb_samples = Len(data) samples
NULLFRAME == [null |-> TRUE, data |-> <<>>]
Frame(d) == [null |-> FALSE, data |-> d]
\* a frame that also says at which sample rate its samples are to be played
PcmFrame(d, rate) == [null |-> FALSE, data |-> d, sample_rate |-> rate]

\* C strings: NULL, or the characters before the terminating zero
NULLSTR == [null |-> TRUE, chars |-> <<>>]
Str(c) == [null |-> FALSE, chars |-> c]

\* an outcome of the library calls of one handler: no failure, or the call
\* `stage` failing, for the calls inside the FIFO loop in iteration `at`
NoFault == [stage |-> "none", at |-> 0]
Fault(s, k) == [stage |-> s, at |-> k]

\* ----------------------------------------------------------------- encoder
\* struct audio_enc.  fifo is the content of the AVAudioFifo, swr_init is
\* swr_is_initialized(swr_ctx).  Two history fields record what crossed the
\* encoder's boundaries: fifo_in, every sample written into the FIFO, and
\* sent, every call into the external encoder and muxer in order
\* (avcodec_send_frame with a frame or with NULL, av_write_trailer).
\* sample_rate, bit_rate and compression_level are the fields of codec_ctx
\* (bit_rate and compression_level are -1 while the program has not set
\* them); swr_in_rate is the input rate swr_ctx was configured with and
\* swr_acc the fraction of an output sample the resampler carries over.
ZeroEnc(hist) ==
    [fmt_ctx |-> FALSE, codec_ctx |-> FALSE, frame_size |-> 0, fifo |-> <<>>,
     swr_init |-> FALSE, pts |-> 0,
     sample_rate |-> 0, bit_rate |-> 0 - 1, compression_level |-> 0 - 1,
     swr_in_rate |-> 0, swr_acc |-> 0,
     fifo_in |-> hist.fifo_in, sent |-> hist.sent]

NoHistory == [fifo_in |-> <<>>, sent |-> <<>>]

\* av_audio_fifo_alloc: NULL when out of memory or when asked for no samples
av_audio_fifo_alloc(nb_samples, oom) == nb_samples > 0 /\ ~oom

\* av_frame_get_buffer: fails when out of memory or for a frame of no samples
av_frame_get_buffer(nb_samples, oom) == nb_samples > 0 /\ ~oom

\* faulty variant of audio_enc_free: the struct is not cleared wholly
audio_enc_free_KeepsCodec(e) == [ZeroEnc(e) EXCEPT !.codec_ctx = TRUE]

\* audio_enc_free: what it releases is in audio_enc_free_heap; the struct is
\* zeroed
audio_enc_free(e) == ZeroEnc(e)

InitStages ==
    {"alloc_output", "find_encoder", "new_stream", "alloc_context",
     "layout_copy", "open", "parameters", "avio_open",
     "write_header", "packet_alloc", "fifo_alloc", "swr_alloc", "swr_opts"}

\* enum audio_quality: the index of the preset in the tables
AUDIO_QUALITY_LOW == 0
AUDIO_QUALITY_MEDIUM == 1
AUDIO_QUALITY_HIGH == 2
AUDIO_QUALITY_EXTREME == 3

\* parse_quality
parse_quality(quality_str) ==
    IF quality_str.null THEN AUDIO_QUALITY_HIGH
    ELSE IF quality_str.chars = <<"l", "o", "w">> THEN AUDIO_QUALITY_LOW
    ELSE IF quality_str.chars = <<"m", "e", "d", "i", "u", "m">>
    THEN AUDIO_QUALITY_MEDIUM
    ELSE IF quality_str.chars = <<"h", "i", "g", "h">> THEN AUDIO_QUALITY_HIGH
    ELSE IF quality_str.chars = <<"e", "x", "t", "r", "e", "m", "e">>
    THEN AUDIO_QUALITY_EXTREME
    ELSE AUDIO_QUALITY_HIGH

\* faulty variant of get_bitrate_for_quality: every codec gets the MP3 row
get_bitrate_for_quality_Mp3Row(codec_name, quality) ==
    IF codec_name \in {"flac", "alac", "pcm_s16le"} THEN 0
    ELSE <<128000, 192000, 256000, 320000>>[quality + 1]

\* get_bitrate_for_quality: 0 for the lossless codecs, else the entry of
\* the codec's row (the MP3 row for a codec that has no row of its own)
get_bitrate_for_quality(codec_name, quality) ==
    IF codec_name \in {"flac", "alac", "pcm_s16le"} THEN 0
    ELSE LET bitrates == << <<128000, 192000, 256000, 320000>>,
                            <<96000, 160000, 256000, 320000>>,
                            <<96000, 128000, 192000, 256000>> >>
             idx == IF codec_name = "aac" THEN 1
                    ELSE IF codec_name = "libopus" THEN 2
                    ELSE 0
         IN  bitrates[idx + 1][quality + 1]

\* get_compression_level
get_compression_level(quality) == <<5, 8, 10, 12>>[quality + 1]

\* the value of a decimal digit, -1 for any other character
DigitValue(c) ==
    IF c = "0" THEN 0 ELSE IF c = "1" THEN 1 ELSE IF c = "2" THEN 2
    ELSE IF c = "3" THEN 3 ELSE IF c = "4" THEN 4 ELSE IF c = "5" THEN 5
    ELSE IF c = "6" THEN 6 ELSE IF c = "7" THEN 7 ELSE IF c = "8" THEN 8
    ELSE IF c = "9" THEN 9 ELSE 0 - 1

\* the digits at the start of chars read as a decimal number that continues
\* acc; rest is what follows them
RECURSIVE ParseDigits(_, _)
ParseDigits(chars, acc) ==
    IF chars # <<>> /\ DigitValue(Head(chars)) >= 0
    THEN ParseDigits(Tail(chars), 10 * acc + DigitValue(Head(chars)))
    ELSE [value |-> acc, endptr |-> chars]

\* the range of int64_t, on a word of WordBits bits
INT64_MAX == 2^(WordBits - 1) - 1
INT64_MIN == 0 - 2^(WordBits - 1)

\* the value an int64_t holds after a computation whose exact result is x
ToInt64(x) == ((x - INT64_MIN) % 2^WordBits) + INT64_MIN

\* strtoll(str, &endptr, 10) for the strings used here (an optional sign,
\* then digits): without a digit the value is 0 and endptr is the string; a
\* number out of range gives the nearest limit and sets errno to ERANGE
strtoll(chars) ==
    LET neg == chars # <<>> /\ Head(chars) = "-"
        body == IF chars # <<>> /\ Head(chars) \in {"-", "+"} THEN Tail(chars)
                ELSE chars
        p == ParseDigits(body, 0)
        exact == IF neg THEN 0 - p.value ELSE p.value
    IN  IF p.endptr = body THEN [value |-> 0, endptr |-> chars, erange |-> FALSE]
        ELSE IF exact > INT64_MAX
        THEN [value |-> INT64_MAX, endptr |-> p.endptr, erange |-> TRUE]
        ELSE IF exact < INT64_MIN
        THEN [value |-> INT64_MIN, endptr |-> p.endptr, erange |-> TRUE]
        ELSE [value |-> exact, endptr |-> p.endptr, erange |-> FALSE]

\* faulty variant of KiloFits: any number may be multiplied
KiloFits_Unchecked(bitrate) == TRUE

\* the test made before a number with suffix k is multiplied by 1000
KiloFits(bitrate) == ~(bitrate > INT64_MAX \div 1000)

\* the settings audio_enc_init derives from --bitrate or the quality preset:
\* ok is FALSE for a bitrate it rejects
EncoderSettings(codec_name, quality, bitrate_str) ==
    IF ~bitrate_str.null
    THEN LET p == strtoll(bitrate_str.chars)
             kilo == p.endptr # <<>> /\ Head(p.endptr) \in {"k", "K"}
         IN  IF p.erange \/ p.value < 0
             THEN [ok |-> FALSE, bit_rate |-> 0 - 1, compression_level |-> 0 - 1]
             ELSE IF kilo /\ ~KiloFits(p.value)
             THEN [ok |-> FALSE, bit_rate |-> 0 - 1, compression_level |-> 0 - 1]
             ELSE [ok |-> TRUE,
                   bit_rate |-> IF kilo THEN ToInt64(p.value * 1000) ELSE p.value,
                   compression_level |-> 0 - 1]
    ELSE LET bitrate == get_bitrate_for_quality(codec_name, quality)
         IN  IF bitrate > 0
             THEN [ok |-> TRUE, bit_rate |-> bitrate, compression_level |-> 0 - 1]
             ELSE [ok |-> TRUE, bit_rate |-> 0 - 1,
                   compression_level |-> get_compression_level(quality)]

\* avcodec_open2 checks the sample rate against the rates the codec lists:
\* libopus takes 48000, 24000, 16000, 12000 and 8000 Hz only
RateSupported(codec_name, sample_rate) ==
    codec_name = "libopus" => sample_rate \in {48000, 24000, 16000, 12000, 8000}

\* audio_enc_init: every step may fail; the encoder is opened at the sample
\* rate it is given and the FIFO is created with the codec's frame size.  A
\* failure after the memset releases and zeroes the struct.
audio_enc_init(e, codec_name, sample_rate, quality, bitrate_str, codec_frame_size, fault) ==
    LET set == EncoderSettings(codec_name, quality, bitrate_str)
    IN  IF fault.stage = "alloc_output"
        THEN [ret |-> AVERROR(ENOMEM), e |-> ZeroEnc(e)]
        ELSE IF fault.stage \in InitStages \ {"fifo_alloc"}
                \/ ~set.ok \/ ~RateSupported(codec_name, sample_rate)
        THEN [ret |-> AVERROR(EINVAL), e |-> audio_enc_free(ZeroEnc(e))]
        ELSE IF ~av_audio_fifo_alloc(codec_frame_size, fault.stage = "fifo_alloc")
        THEN [ret |-> AVERROR(ENOMEM), e |-> audio_enc_free(ZeroEnc(e))]
        ELSE [ret |-> 0,
              e |-> [ZeroEnc(e) EXCEPT !.fmt_ctx = TRUE, !.codec_ctx = TRUE,
                                       !.frame_size = codec_frame_size,
                                       !.sample_rate = sample_rate,
                                       !.bit_rate = set.bit_rate,
                                       !.compression_level = set.compression_level,
                                       !.pts = 0]]

\* faulty variants of NextPts: pts counts frames; pts is not advanced
NextPts_CountsFrames(e, frame) == e.pts + 1
NextPts_NotAdvanced(e, frame) == e.pts

\* the value of encoder->pts after a frame has been stamped
NextPts(e, frame) == e.pts + Len(frame.data)

\* the encoder is draining once it has accepted the flush signal
Draining(e) ==
    \E i \in 1..Len(e.sent) : e.sent[i].kind = "flush" /\ e.sent[i].ok

\* avcodec_send_frame: what it returns.  A draining encoder takes neither a
\* frame nor a second flush signal.
avcodec_send_frame(e, failed) ==
    IF Draining(e) THEN AVERROR_EOF
    ELSE IF failed THEN AVERROR(EINVAL)
    ELSE 0

\* faulty variant of encode_frame: the flush signal is stamped like a block
\* of frame_size samples
encode_frame_StampsFlush(e, frame, stage) ==
    LET e1 == [e EXCEPT !.pts = IF frame.null THEN e.pts + e.frame_size
                                 ELSE NextPts(e, frame)]
        sent == avcodec_send_frame(e, stage = "send")
        rec == [kind |-> IF frame.null THEN "flush" ELSE "frame",
                data |-> frame.data,
                pts |-> IF frame.null THEN 0 - 1 ELSE e.pts,
                finish |-> FALSE,
                ok |-> sent = 0]
        e2 == [e1 EXCEPT !.sent = Append(@, rec)]
    IN  IF sent < 0 THEN [ret |-> sent, e |-> e2]
        ELSE IF stage \in {"receive", "mux"}
        THEN [ret |-> AVERROR(EINVAL), e |-> e2]
        ELSE [ret |-> 0, e |-> e2]

\* encode_frame: stamps the frame with pts and advances pts, hands the frame
\* (or NULL, the flush signal) to the encoder, then drains the packets.
encode_frame(e, frame, stage) ==
    LET e1 == IF ~frame.null
              THEN [e EXCEPT !.pts = NextPts(e, frame)]
              ELSE e
        sent == avcodec_send_frame(e, stage = "send")
        rec == [kind |-> IF frame.null THEN "flush" ELSE "frame",
                data |-> frame.data,
                pts |-> IF frame.null THEN 0 - 1 ELSE e.pts,
                finish |-> FALSE,
                ok |-> sent = 0]
        e2 == [e1 EXCEPT !.sent = Append(@, rec)]
    IN  IF sent < 0 THEN [ret |-> sent, e |-> e2]
        ELSE IF stage = "receive" THEN [ret |-> AVERROR(EINVAL), e |-> e2]
        ELSE IF stage = "mux" THEN [ret |-> AVERROR(EINVAL), e |-> e2]
        ELSE [ret |-> 0, e |-> e2]

\* the record of the frame just handed over notes which call of
\* encode_from_fifo read it (finish = 1: the end-of-stream flush)
TagFinish(e, finish) ==
    [e EXCEPT !.sent[Len(e.sent)].finish = (finish = 1)]

\* faulty variant of FifoLoopCond: the loop drains whatever is buffered
FifoLoopCond_DrainsAlways(e, finish) == Len(e.fifo) > 0

\* faulty variant of FifoLoopCond: a FIFO holding exactly one frame is left alone
FifoLoopCond_LeavesFull(e, finish) ==
    Len(e.fifo) > e.frame_size \/ (finish = 1 /\ Len(e.fifo) > 0)

\* faulty variant of FifoLoopCond: the remainder is not read at the flush
FifoLoopCond_IgnoresFinish(e, finish) == Len(e.fifo) >= e.frame_size

\* the condition of the while loop of encode_from_fifo
FifoLoopCond(e, finish) ==
    Len(e.fifo) >= e.frame_size \/ (finish = 1 /\ Len(e.fifo) > 0)

\* faulty variant of SamplesToRead: the frame takes no sample
SamplesToRead_None(e) == 0

\* faulty variant of SamplesToRead: the frame takes all that is buffered
SamplesToRead_All(e) == Len(e.fifo)

\* samples_to_read: the FIFO content, at most one frame
SamplesToRead(e) == Min(Len(e.fifo), e.frame_size)

\* faulty variant of av_audio_fifo_read: one sample too many leaves the FIFO
av_audio_fifo_read_DropsOne(fifo, n) ==
    [data |-> SubSeq(fifo, 1, n), fifo |-> SubSeq(fifo, n + 2, Len(fifo))]

\* av_audio_fifo_read: the first n samples leave the FIFO
av_audio_fifo_read(fifo, n) ==
    [data |-> SubSeq(fifo, 1, n), fifo |-> SubSeq(fifo, n + 1, Len(fifo))]

\* faulty variant of av_audio_fifo_write: new samples go in front
av_audio_fifo_write_InFront(fifo, samples) == samples \o fifo

\* faulty variant of av_audio_fifo_write: the last sample is not stored
av_audio_fifo_write_DropsLast(fifo, samples) ==
    fifo \o SubSeq(samples, 1, Len(samples) - 1)

\* av_audio_fifo_write: the samples are appended
av_audio_fifo_write(fifo, samples) == fifo \o samples

\* encode_from_fifo: k counts the iterations of the while loop
RECURSIVE encode_from_fifo(_, _, _, _)
encode_from_fifo(e, finish, fault, k) ==
    IF FifoLoopCond(e, finish)
    THEN LET samples_to_read == SamplesToRead(e)
             here == fault.at = k
         IN  IF here /\ fault.stage \in {"frame_alloc", "frame_layout"}
             THEN [ret |-> AVERROR(ENOMEM), e |-> e]
             ELSE IF ~av_frame_get_buffer(samples_to_read,
                                          here /\ fault.stage = "frame_buffer")
             THEN [ret |-> AVERROR(ENOMEM), e |-> e]
             ELSE IF here /\ fault.stage = "fifo_read"
             THEN [ret |-> AVERROR(EINVAL), e |-> e]
             ELSE LET rd == av_audio_fifo_read(e.fifo, samples_to_read)
                      output_frame == Frame(rd.data)
                      e1 == [e EXCEPT !.fifo = rd.fifo]
                      r == encode_frame(e1, output_frame,
                                        IF here THEN fault.stage ELSE "none")
                  IN  \* r1 is the result of the call, computed once per iteration
                      CHOOSE res \in
                          {IF r1.ret < 0 THEN r1
                           ELSE encode_from_fifo(r1.e, finish, fault, k + 1) :
                              r1 \in {[r0 EXCEPT !.e = TagFinish(r0.e, finish)] :
                                         r0 \in {r}}} : TRUE
    ELSE [ret |-> 0, e |-> e]

\* the library calls audio_enc_write_frame makes for a frame, in order
WriteStages == {"swr_config", "swr_init", "conv_alloc", "swr_convert", "fifo_write"}

\* faulty variant of av_rescale_rnd_up: the quotient is rounded down
av_rescale_rnd_up_Floor(a, b, c) == (a * b) \div c

\* av_rescale_rnd(a, b, c, AV_ROUND_UP): a * b / c rounded up
av_rescale_rnd_up(a, b, c) == (a * b + c - 1) \div c

\* faulty variant of swr_convert: the last sample of each block is held back
swr_convert_HoldsBack(out_count, in) == SubSeq(in, 1, Min(Len(in), out_count) - 1)

\* swr_convert between equal sample rates: no sample is held back, and at
\* most out_count samples are produced, in order
swr_convert(out_count, in) == SubSeq(in, 1, Min(Len(in), out_count))

\* a resampler from in_rate to out_rate, without the latency of its filter:
\* every input sample advances the output position by out_rate/in_rate, each
\* whole output sample emitted takes the value of the input sample under it,
\* and the fraction acc/in_rate is carried to the next sample and call
RECURSIVE Resample(_, _, _, _)
Resample(acc, in_rate, out_rate, in) ==
    IF in = <<>> THEN [data |-> <<>>, acc |-> acc]
    ELSE LET a == acc + out_rate
             rest == Resample(a % in_rate, in_rate, out_rate, Tail(in))
         IN  [data |-> [i \in 1..(a \div in_rate) |-> Head(in)] \o rest.data,
              acc |-> rest.acc]

\* faulty variant of swr_convert_rate: the fraction is not carried over, and
\* the last sample of every block is lost with it
swr_convert_rate_NoCarry(acc, in_rate, out_rate, out_count, in) ==
    [data |-> SubSeq(Resample(0, in_rate, out_rate, in).data, 1,
                     Min(Len(in), out_count) - 1),
     acc |-> 0]

\* swr_convert of a context configured from in_rate to out_rate: the samples
\* it returns (at most out_count) and the fraction it carries over
swr_convert_rate(acc, in_rate, out_rate, out_count, in) ==
    IF in_rate = out_rate
    THEN [data |-> swr_convert(out_count, in), acc |-> acc]
    ELSE LET r == Resample(acc, in_rate, out_rate, in)
         IN  [data |-> SubSeq(r.data, 1, Min(Len(r.data), out_count)), acc |-> r.acc]

\* swr_get_delay: the input samples the resampler holds back
swr_get_delay(acc, base) == 0

\* faulty variant of ConfigureSwr: every frame configures the converter anew
ConfigureSwr_EveryFrame(e, frame) ==
    [e EXCEPT !.swr_init = TRUE, !.swr_in_rate = frame.sample_rate]

\* the converter after the block that configures it: a converter that is
\* not initialised takes the source parameters of the frame
ConfigureSwr(e, frame) ==
    IF e.swr_init THEN e
    ELSE [e EXCEPT !.swr_init = TRUE, !.swr_in_rate = frame.sample_rate]

\* faulty variant of audio_enc_write_frame: the results of the buffer
\* allocation and of the conversion are looked at after the FIFO write
audio_enc_write_frame_ChecksLate(e, frame, fault) ==
    IF ~e.codec_ctx THEN [ret |-> AVERROR(EINVAL), e |-> e]
    ELSE IF ~frame.null
    THEN IF ~e.swr_init /\ fault.stage \in {"swr_config", "swr_init"}
         THEN [ret |-> AVERROR(EINVAL), e |-> e]
         ELSE LET e1 == ConfigureSwr(e, frame)
                  dst_nb_samples ==
                      av_rescale_rnd_up(
                          swr_get_delay(e1.swr_acc, frame.sample_rate)
                              + Len(frame.data),
                          e1.sample_rate, frame.sample_rate)
                  conv == swr_convert_rate(e1.swr_acc, e1.swr_in_rate,
                                           e1.sample_rate, dst_nb_samples,
                                           frame.data)
                  e2 == [e1 EXCEPT !.swr_acc = conv.acc]
                  e3 == [e2 EXCEPT !.fifo = av_audio_fifo_write(e2.fifo, conv.data),
                                   !.fifo_in = e2.fifo_in \o conv.data]
              IN  IF fault.stage = "fifo_write"
                  THEN [ret |-> AVERROR(ENOMEM), e |-> e2]
                  ELSE IF fault.stage = "conv_alloc" \/ dst_nb_samples <= 0
                  THEN [ret |-> AVERROR(ENOMEM), e |-> e3]
                  ELSE IF fault.stage = "swr_convert"
                  THEN [ret |-> AVERROR(EINVAL), e |-> e3]
                  ELSE encode_from_fifo(e3, 0, fault, 1)
    ELSE LET r == encode_from_fifo(e, 1, fault, 1)
         IN  IF r.ret < 0 THEN r
             ELSE encode_frame(r.e, NULLFRAME,
                               IF fault.stage = "flush_send" THEN "send"
                               ELSE IF fault.stage = "flush_receive" THEN "receive"
                               ELSE IF fault.stage = "flush_mux" THEN "mux"
                               ELSE "none")

\* audio_enc_write_frame
audio_enc_write_frame(e, frame, fault) ==
    IF ~e.codec_ctx THEN [ret |-> AVERROR(EINVAL), e |-> e]
    ELSE IF ~frame.null
    THEN IF ~e.swr_init /\ fault.stage \in {"swr_config", "swr_init"}
         THEN [ret |-> AVERROR(EINVAL), e |-> e]
         ELSE LET e1 == ConfigureSwr(e, frame)
                  dst_nb_samples ==
                      av_rescale_rnd_up(
                          swr_get_delay(e1.swr_acc, frame.sample_rate)
                              + Len(frame.data),
                          e1.sample_rate, frame.sample_rate)
                  conv == swr_convert_rate(e1.swr_acc, e1.swr_in_rate,
                                           e1.sample_rate, dst_nb_samples,
                                           frame.data)
                  converted == conv.data
                  e2 == [e1 EXCEPT !.swr_acc = conv.acc]
              IN  IF fault.stage = "conv_alloc" \/ dst_nb_samples <= 0
                  THEN [ret |-> AVERROR(ENOMEM), e |-> e1]
                  ELSE IF fault.stage = "swr_convert"
                  THEN [ret |-> AVERROR(EINVAL), e |-> e1]
                  ELSE IF fault.stage = "fifo_write"
                  THEN [ret |-> AVERROR(ENOMEM), e |-> e2]
                  ELSE \* e3 is the encoder after av_audio_fifo_write
                       CHOOSE res \in
                           {encode_from_fifo(e3, 0, fault, 1) :
                              e3 \in {[e2 EXCEPT
                                         !.fifo = av_audio_fifo_write(e2.fifo, converted),
                                         !.fifo_in = e2.fifo_in \o converted]}} : TRUE
    ELSE LET r == encode_from_fifo(e, 1, fault, 1)
         IN  IF r.ret < 0 THEN r
             ELSE encode_frame(r.e, NULLFRAME,
                               IF fault.stage = "flush_send" THEN "send"
                               ELSE IF fault.stage = "flush_receive" THEN "receive"
                               ELSE IF fault.stage = "flush_mux" THEN "mux"
                               ELSE "none")

\* av_write_trailer, recorded in the history of calls
av_write_trailer(e, failed) ==
    [e EXCEPT !.sent = Append(@, [kind |-> "trailer", data |-> <<>>,
                                  pts |-> 0 - 1, finish |-> FALSE,
                                  ok |-> ~failed])]

\* faulty variants of audio_enc_finalize: the trailer is written before the
\* encoder is flushed; nothing is done for a stream that had no samples
audio_enc_finalize_TrailerFirst(e, fault) ==
    IF ~e.fmt_ctx THEN [ret |-> AVERROR(EINVAL), e |-> e]
    ELSE IF fault.stage = "trailer"
    THEN [ret |-> AVERROR(EINVAL), e |-> av_write_trailer(e, TRUE)]
    ELSE audio_enc_write_frame(av_write_trailer(e, FALSE), NULLFRAME, fault)

audio_enc_finalize_SkipsEmpty(e, fault) ==
    IF ~e.fmt_ctx THEN [ret |-> AVERROR(EINVAL), e |-> e]
    ELSE IF e.pts = 0 /\ e.fifo = <<>> THEN [ret |-> 0, e |-> e]
    ELSE LET r == audio_enc_write_frame(e, NULLFRAME, fault)
         IN  IF r.ret < 0 THEN r
             ELSE IF fault.stage = "trailer"
             THEN [ret |-> AVERROR(EINVAL), e |-> av_write_trailer(r.e, TRUE)]
             ELSE [ret |-> 0, e |-> av_write_trailer(r.e, FALSE)]

\* audio_enc_finalize
audio_enc_finalize(e, fault) ==
    IF ~e.fmt_ctx THEN [ret |-> AVERROR(EINVAL), e |-> e]
    ELSE LET r == audio_enc_write_frame(e, NULLFRAME, fault)
         IN  IF r.ret < 0 THEN r
             ELSE IF fault.stage = "trailer"
             THEN [ret |-> AVERROR(EINVAL), e |-> av_write_trailer(r.e, TRUE)]
             ELSE [ret |-> 0, e |-> av_write_trailer(r.e, FALSE)]

\* faults of the calls made once per handler, and of those made in each of
\* the first n iterations of the FIFO loop
LoopStages ==
    {"frame_alloc", "frame_layout", "frame_buffer", "fifo_read",
     "send", "receive", "mux"}
FlushStages == {"flush_send", "flush_receive", "flush_mux", "trailer"}
LoopFaults(n) == {Fault(s, k) : s \in LoopStages, k \in 1..n}
WriteFaults(e, frame) ==
    {NoFault} \cup {Fault(s, 0) : s \in WriteStages}
              \cup LoopFaults(Len(e.fifo) + Len(frame.data))
FinalizeFaults(e) ==
    {NoFault} \cup {Fault(s, 0) : s \in FlushStages} \cup LoopFaults(Len(e.fifo))

\* ------------------------------------------------------------------ filter
\* struct audio_filter: graph is non-NULL after audio_filter_init.  What the
\* graph does is given by its description: copies, how often it emits each
\* block; latency, whether it may keep samples and cut its output into frames
\* of its own; in_rate and out_rate, the sample rates at its source and at
\* its sink; acc, the fraction its resampler carries over.  buf holds the
\* samples a graph with latency has not emitted yet, queue the frames that
\* wait at the sink of a graph without latency.
ZeroFilter ==
    [graph |-> FALSE, buf |-> <<>>, queue |-> <<>>, copies |-> 0,
     latency |-> FALSE, in_rate |-> 0, out_rate |-> 0, acc |-> 0]

\* the filter descriptions explored: a chain that hands every block on as it
\* comes ("volume=0.5"), one that emits every pushed block twice
\* ("duplicate"), one that cuts the stream into frames of its own
\* ("asetnsamples=n=1024"), and the resampling chain of the README
\* ("aresample=48000"; like the encoder's converter, without the latency of
\* its filter)
GraphCopies(filter_desc) == IF filter_desc = "duplicate" THEN 2 ELSE 1
GraphLatency(filter_desc) == filter_desc = "asetnsamples=n=1024"
GraphRate(filter_desc, sample_rate) ==
    IF filter_desc = "aresample=48000" THEN 48000 ELSE sample_rate

\* audio_filter_init: fills the struct in only on success
audio_filter_init(f, sample_rate, filter_desc, failed) ==
    IF failed THEN [ret |-> AVERROR(EINVAL), f |-> f]
    ELSE [ret |-> 0,
          f |-> [graph |-> TRUE, buf |-> <<>>, queue |-> <<>>,
                 copies |-> GraphCopies(filter_desc),
                 latency |-> GraphLatency(filter_desc),
                 in_rate |-> sample_rate,
                 out_rate |-> GraphRate(filter_desc, sample_rate),
                 acc |-> 0]]

\* audio_filter_push: av_buffersrc_add_frame_flags with KEEP_REF; the graph
\* resamples the block and emits it `copies` times
audio_filter_push(f, frame, failed) ==
    IF failed THEN [ret |-> AVERROR(EINVAL), f |-> f]
    ELSE LET r == IF f.in_rate = f.out_rate
                  THEN [data |-> frame.data, acc |-> f.acc]
                  ELSE Resample(f.acc, f.in_rate, f.out_rate, frame.data)
         IN  [ret |-> 0,
              f |-> IF f.latency
                    THEN [f EXCEPT !.buf = f.buf \o r.data, !.acc = r.acc]
                    ELSE [f EXCEPT !.queue = f.queue \o [i \in 1..f.copies |-> r.data],
                                   !.acc = r.acc]]

\* what a pull can meet: no memory for the frame, a fault of the graph, a
\* frame waiting at the sink; and when none waits: no output available yet,
\* end of stream, or a frame of n of the samples the graph keeps
PullOutcomes(f) ==
    {[kind |-> k, n |-> 0] : k \in {"enomem", "fault"}}
    \cup IF f.queue # <<>>
         THEN {[kind |-> "frame", n |-> Len(Head(f.queue))]}
         ELSE {[kind |-> k, n |-> 0] : k \in {"eagain", "eof"}}
              \cup {[kind |-> "frame", n |-> n] : n \in 1..Min(Len(f.buf), MaxBlock)}

\* av_buffersink_get_frame: its result and the graph afterwards; data are
\* the samples put into the frame
av_buffersink_get_frame(f, out) ==
    IF out.kind = "eagain" THEN [ret |-> AVERROR(EAGAIN), data |-> <<>>, f |-> f]
    ELSE IF out.kind = "eof" THEN [ret |-> AVERROR_EOF, data |-> <<>>, f |-> f]
    ELSE IF out.kind = "fault" THEN [ret |-> AVERROR(EINVAL), data |-> <<>>, f |-> f]
    ELSE IF f.queue # <<>>
    THEN [ret |-> 0, data |-> Head(f.queue), f |-> [f EXCEPT !.queue = Tail(f.queue)]]
    ELSE [ret |-> 0, data |-> SubSeq(f.buf, 1, out.n),
          f |-> [f EXCEPT !.buf = SubSeq(f.buf, out.n + 1, Len(f.buf))]]

\* faulty variant of audio_filter_pull: after a failed
\* av_buffersink_get_frame the frame is neither released nor set to NULL
audio_filter_pull_KeepsFrame(f, out) ==
    IF out.kind = "enomem"
    THEN [ret |-> AVERROR(ENOMEM), out_frame |-> NULLFRAME, f |-> f,
          allocs |-> 0, frees |-> 0]
    ELSE LET g == av_buffersink_get_frame(f, out)
         IN  [ret |-> g.ret, out_frame |-> PcmFrame(g.data, f.out_rate), f |-> g.f,
              allocs |-> 1, frees |-> 0]

\* audio_filter_pull: ret, *out_frame and the graph afterwards; allocs and
\* frees count the av_frame_alloc that succeeded in the call and the
\* av_frame_free the call made
audio_filter_pull(f, out) ==
    IF out.kind = "enomem"
    THEN [ret |-> AVERROR(ENOMEM), out_frame |-> NULLFRAME, f |-> f,
          allocs |-> 0, frees |-> 0]
    ELSE LET g == av_buffersink_get_frame(f, out)
         IN  IF g.ret < 0
             THEN [ret |-> g.ret, out_frame |-> NULLFRAME, f |-> g.f,
                   allocs |-> 1, frees |-> 1]
             ELSE [ret |-> g.ret, out_frame |-> PcmFrame(g.data, f.out_rate),
                   f |-> g.f, allocs |-> 1, frees |-> 0]

\* audio_filter_free
audio_filter_free(f) == IF f.graph THEN ZeroFilter ELSE f

\* ----------------------------------------------------------------- decoder
\* struct audio_dec: open is fmt_ctx != NULL; next is the position in the
\* stream of the next sample the codec will decode; sample_rate is the rate
\* of the input stream, which is also the rate of the PCM the decoder returns
ZeroDec == [open |-> FALSE, next |-> 1, sample_rate |-> 0, held |-> <<>>, dropped |-> 0]

\* audio_dec_init: file_rate is the sample rate of the file's audio stream
audio_dec_init(d, file_rate, failed) ==
    IF failed THEN [ret |-> AVERROR(EINVAL), d |-> ZeroDec]
    ELSE [ret |-> 0, d |-> [open |-> TRUE, next |-> 1, sample_rate |-> file_rate,
                            held |-> <<>>, dropped |-> 0]]

audio_dec_free(d) == [d EXCEPT !.open = FALSE]

\* what one audio_decoder_read call can meet in the file and the codec:
\* end of file or a read error; a packet of another stream; a packet the
\* codec rejects; a packet that yields no frame (EAGAIN, or a decode error);
\* a frame of n samples (possibly none), whose conversion succeeds or fails
ReadOutcomes(more) ==
    {[kind |-> k, n |-> 0] : k \in {"eof", "read_error"}}
    \cup IF more
         THEN {[kind |-> k, n |-> 0] :
                   k \in {"other_stream", "send_error", "eagain", "receive_error",
                          "frame"}}
              \cup {[kind |-> k, n |-> n] :
                       k \in {"frame", "conv_alloc", "swr_convert", "buffer_size"},
                       n \in 1..MaxBlock}
         ELSE {}

\* the outcomes in which a library call fails
ReadFailures ==
    {"read_error", "send_error", "receive_error", "conv_alloc", "swr_convert",
     "buffer_size"}

\* faulty variant of audio_decoder_read: the end of the file is reported
\* like a packet that gave nothing
audio_decoder_read_NeverEnds(d, in) ==
    IF in.kind \in {"eof", "read_error", "other_stream", "send_error", "eagain",
                    "receive_error"}
    THEN [ret |-> 1, data |-> NULLFRAME, d |-> d]
    ELSE LET decoded == [i \in 1..in.n |-> d.next + i - 1]
             d1 == [d EXCEPT !.next = d.next + in.n]
         IN  IF in.kind \in {"conv_alloc", "swr_convert", "buffer_size"} \/ in.n = 0
             THEN [ret |-> 1, data |-> NULLFRAME, d |-> d1]
             ELSE [ret |-> 1, data |-> Frame(decoded), d |-> d1]

\* the frames the codec makes of a packet: one frame of n samples, or two
\* ("frames2"); the samples are numbered as they are decoded
PacketFrames(d, in) ==
    LET first == [i \in 1..in.n |-> d.next + i - 1]
    IN  IF in.kind = "frames2"
        THEN <<first, [i \in 1..in.n |-> d.next + in.n + i - 1]>>
        ELSE <<first>>

\* the samples in a sequence of frames
RECURSIVE SamplesIn(_)
SamplesIn(frames) ==
    IF frames = <<>> THEN 0 ELSE Len(Head(frames)) + SamplesIn(Tail(frames))

\* audio_decoder_read: ret, the PCM buffer (*out_data, NULL or the samples;
\* *out_size is its length) and the decoder afterwards.  No buffer can be
\* allocated for a frame of no samples (av_samples_get_buffer_size rejects it).
\* d.held are the frames the codec has decoded and not handed out yet,
\* d.dropped counts the packets unreferenced after avcodec_send_packet
\* answered EAGAIN; the one avcodec_receive_frame of a call takes the oldest
\* frame of the codec, unless the codec says EAGAIN ("delayed").
audio_decoder_read(d, in) ==
    IF in.kind \in {"eof", "read_error"}
    THEN [ret |-> 0, data |-> NULLFRAME, d |-> d]
    ELSE IF in.kind \in {"other_stream", "send_error", "eagain", "receive_error"}
    THEN [ret |-> 1, data |-> NULLFRAME, d |-> d]
    ELSE IF in.kind = "send_eagain"
    THEN [ret |-> 1, data |-> NULLFRAME, d |-> [d EXCEPT !.dropped = @ + 1]]
    ELSE LET produced == PacketFrames(d, in)
             in_codec == d.held \o produced
             d0 == [d EXCEPT !.next = d.next + SamplesIn(produced)]
             decoded == Head(in_codec)
             d1 == [d0 EXCEPT !.held = Tail(in_codec)]
             dst_nb_samples ==
                 av_rescale_rnd_up(swr_get_delay(0, d.sample_rate) + Len(decoded),
                                   d.sample_rate, d.sample_rate)
         IN  IF in.kind = "delayed"
             THEN [ret |-> 1, data |-> NULLFRAME, d |-> [d0 EXCEPT !.held = in_codec]]
             ELSE IF in.kind \in {"conv_alloc", "swr_convert", "buffer_size"}
                     \/ dst_nb_samples <= 0
             THEN [ret |-> 1, data |-> NULLFRAME, d |-> d1]
             ELSE [ret |-> 1, data |-> Frame(swr_convert(dst_nb_samples, decoded)),
                   d |-> d1]

\* --------------------------------------------------------------- resources
\* What the three components acquire from the libraries.  A resource is
\* named by the pointer that holds it: the fields of struct audio_dec and
\* struct audio_enc, and for the filter the local graph (which becomes
\* filter->graph) and the two AVFilterInOut lists.
DecResources ==
    {"dec.fmt_ctx", "dec.codec_ctx", "dec.pkt", "dec.frame", "dec.swr_ctx"}
FilterResources == {"filter.graph", "filter.inputs", "filter.outputs"}
EncResources ==
    {"enc.fmt_ctx", "enc.codec_ctx", "enc.pb", "enc.pkt", "enc.fifo", "enc.swr_ctx"}
Resources == DecResources \cup FilterResources \cup EncResources

\* the elements of a sequence that are in a set, in the order of the sequence
Those(order, held) == SelectSeq(order, LAMBDA r : r \in held)

\* the index of an element in a sequence that contains it once
IndexOf(seq, x) == CHOOSE i \in 1..Len(seq) : seq[i] = x

\* what is acquired by the steps of `steps` that come before `stage` (all
\* of them when no step fails); gains[i] is what step i acquires
HeldBefore(steps, gains, stage) ==
    LET n == IF stage = "none" THEN Len(steps) ELSE IndexOf(steps, stage) - 1
    IN  UNION {gains[i] : i \in 1..n}

\* the steps of audio_dec_init that can fail, in order.  The packet and the
\* frame are allocated together and tested together.
DecInitSteps ==
    <<"open_input", "stream_info", "best_stream", "find_decoder", "alloc_context",
      "parameters", "open", "packet_alloc", "frame_alloc", "swr_alloc",
      "swr_opts", "swr_init">>

DecAcquires(step) ==
    IF step = "open_input" THEN {"dec.fmt_ctx"}
    ELSE IF step = "alloc_context" THEN {"dec.codec_ctx"}
    ELSE IF step = "packet_alloc" THEN {"dec.pkt"}
    ELSE IF step = "frame_alloc" THEN {"dec.frame"}
    ELSE IF step = "swr_alloc" THEN {"dec.swr_ctx"}
    ELSE {}

\* the pointers of the struct that are set when audio_dec_init leaves its
\* straight path at `stage`: when av_packet_alloc fails the frame has still
\* been allocated
DecHeldAt(stage) ==
    HeldBefore(DecInitSteps, [i \in 1..Len(DecInitSteps) |-> DecAcquires(DecInitSteps[i])], stage)
        \cup (IF stage = "packet_alloc" THEN {"dec.frame"} ELSE {})

\* audio_dec_free releases what the struct holds, in this order
audio_dec_free_order ==
    <<"dec.swr_ctx", "dec.frame", "dec.pkt", "dec.codec_ctx", "dec.fmt_ctx">>

\* the resources audio_dec_init acquires and releases when `stage` fails
\* ("none": success).  A failed avformat_open_input returns at once; every
\* later failure goes through audio_dec_free.
audio_dec_init_heap(stage) ==
    [acquired |-> DecHeldAt(stage),
     released |-> IF stage = "none" THEN <<>>
                  ELSE Those(audio_dec_free_order, DecHeldAt(stage))]

\* the steps of audio_filter_init that can fail, in order
FilterInitSteps ==
    <<"fmt_name", "find_filters", "graph_alloc", "src_alloc", "src_opts",
      "src_init", "sink_alloc", "sink_init", "inout_alloc", "strdup_in",
      "strdup_out", "graph_parse", "graph_config">>

\* the two lists are allocated right after the graph; whether they were
\* obtained is tested at step inout_alloc only
FilterAcquires(step) ==
    IF step = "graph_alloc"
    THEN {"filter.graph", "filter.inputs", "filter.outputs"}
    ELSE {}

\* what audio_filter_init holds when `stage` fails: at inout_alloc one of the
\* lists (here outputs) was not obtained
FilterHeldAt(stage) ==
    HeldBefore(FilterInitSteps, [i \in 1..Len(FilterInitSteps) |-> FilterAcquires(FilterInitSteps[i])], stage)
        \ (IF stage = "inout_alloc" THEN {"filter.outputs"} ELSE {})

\* what a failing audio_filter_init releases: the steps inout_alloc,
\* strdup_in and strdup_out release the lists themselves, which sets the
\* pointers to NULL, and jump to fail, where the lists that are not NULL and
\* the graph are released; avfilter_graph_parse_ptr takes the lists over and
\* releases them itself, whether it succeeds or fails
FilterFailReleases(stage) ==
    LET held == FilterHeldAt(stage)
        early == IF stage \in {"inout_alloc", "strdup_in", "strdup_out"}
                 THEN Those(<<"filter.outputs", "filter.inputs">>, held)
                 ELSE <<>>
        taken == IF stage \in {"graph_parse", "graph_config"}
                 THEN Those(<<"filter.inputs", "filter.outputs">>, held)
                 ELSE <<>>
        left == held \ {"filter.inputs", "filter.outputs"}
        at_fail == IF early # <<>> \/ taken # <<>>
                   THEN Those(<<"filter.graph">>, left)
                   ELSE Those(<<"filter.inputs", "filter.outputs", "filter.graph">>,
                              held)
    IN  early \o taken \o at_fail

\* the resources audio_filter_init acquires and releases when `stage` fails;
\* on success the lists have been taken over by the parser and the graph
\* stays with the struct
audio_filter_init_heap(stage) ==
    [acquired |-> FilterHeldAt(stage),
     released |-> IF stage = "none" THEN <<"filter.inputs", "filter.outputs">>
                  ELSE FilterFailReleases(stage)]

\* faulty variant of audio_filter_free_heap: the graph is released at every call
audio_filter_free_heap_Again(f) == <<"filter.graph">>

\* what audio_filter_free releases: the graph, if the struct holds one
audio_filter_free_heap(f) ==
    IF f.graph THEN <<"filter.graph">> ELSE <<>>

\* the steps of audio_enc_init that can fail, in order
EncInitSteps ==
    <<"alloc_output", "find_encoder", "new_stream", "alloc_context",
      "layout_copy", "bitrate", "open", "parameters", "avio_open",
      "write_header", "packet_alloc", "fifo_alloc", "swr_alloc", "swr_opts">>

EncAcquires(step) ==
    IF step = "alloc_output" THEN {"enc.fmt_ctx"}
    ELSE IF step = "alloc_context" THEN {"enc.codec_ctx"}
    ELSE IF step = "avio_open" THEN {"enc.pb"}
    ELSE IF step = "packet_alloc" THEN {"enc.pkt"}
    ELSE IF step = "fifo_alloc" THEN {"enc.fifo"}
    ELSE IF step = "swr_alloc" THEN {"enc.swr_ctx"}
    ELSE {}

\* faulty variant of audio_enc_free_order: the FIFO is not released
audio_enc_free_order_LeaksFifo ==
    <<"enc.pb", "enc.swr_ctx", "enc.pkt", "enc.codec_ctx", "enc.fmt_ctx">>

\* audio_enc_free releases what the struct holds, in this order
audio_enc_free_order ==
    <<"enc.pb", "enc.fifo", "enc.swr_ctx", "enc.pkt", "enc.codec_ctx", "enc.fmt_ctx">>

\* what audio_enc_free releases for a struct that holds `held`
audio_enc_free_heap(held) == Those(audio_enc_free_order, held)

\* the resources audio_enc_init acquires and releases when `stage` fails.  A
\* failed avformat_alloc_output_context2 returns at once; every later
\* failure goes through audio_enc_free.
audio_enc_init_heap(stage) ==
    LET held == HeldBefore(EncInitSteps, [i \in 1..Len(EncInitSteps) |-> EncAcquires(EncInitSteps[i])], stage)
    IN  [acquired |-> held,
         released |-> IF stage = "none" THEN <<>> ELSE audio_enc_free_heap(held)]

\* what audio_dec_free releases for this struct, which holds all or nothing
audio_dec_free_heap(d) ==
    IF d.open THEN Those(audio_dec_free_order, DecResources) ELSE <<>>

\* the resources struct audio_enc holds: all or nothing
EncHeldBy(e) == IF e.fmt_ctx THEN EncResources ELSE {}

\* the step at which audio_enc_init fails for these arguments and this
\* fault, "none" if it succeeds: the first of the step that is made to fail,
\* the bitrate the function rejects, the sample rate avcodec_open2 rejects
\* and the frame size av_audio_fifo_alloc rejects
EncFailingStep(codec_name, sample_rate, quality, bitrate_str, codec_frame_size, fault) ==
    LET failing ==
            (IF fault.stage \in InitStages THEN {fault.stage} ELSE {})
            \cup (IF ~EncoderSettings(codec_name, quality, bitrate_str).ok
                  THEN {"bitrate"} ELSE {})
            \cup (IF ~RateSupported(codec_name, sample_rate) THEN {"open"} ELSE {})
            \cup (IF codec_frame_size <= 0 THEN {"fifo_alloc"} ELSE {})
    IN  IF failing = {} THEN "none"
        ELSE CHOOSE s \in failing :
                 \A t \in failing :
                     IndexOf(EncInitSteps, s) <= IndexOf(EncInitSteps, t)

\* the ledger of the resources: how often each has been acquired and how
\* often released
EmptyHeap == [r \in Resources |-> [acquired |-> 0, released |-> 0]]

\* how often x occurs in a sequence
Occurrences(seq, x) == Cardinality({i \in 1..Len(seq) : seq[i] = x})

\* the ledger after a call that acquired the set `acquired` and released
\* the sequence `released`
Account(h, acquired, released) ==
    [r \in Resources |->
        [acquired |-> h[r].acquired + (IF r \in acquired THEN 1 ELSE 0),
         released |-> h[r].released + Occurrences(released, r)]]

\* the resources that are live: acquired and not yet released
Live(h) == {r \in Resources : h[r].acquired > h[r].released}

\* ------------------------------------------------------------------ driver
VARIABLES
    pc,               \* position of main: init, loop, pull, finalize, cleanup, done
    codec_name,       \* --codec=<name>, "" when the option is not given
    quality_str,      \* --quality=<preset>, NULL when the option is not given
    bitrate_str,      \* --bitrate=<rate>, NULL when the option is not given
    filter_desc,      \* --filter=<desc>, "" when no filter is given
    input_rate,       \* the sample rate of the audio stream of the input file
    use_encoder,      \* --codec given
    use_filter,       \* a non-empty filter description given
    codec_frame_size, \* codec_ctx->frame_size the chosen codec reports when opened
    decoder, filter, encoder,
    reads,            \* packets read from the input file so far
    out_file,         \* the raw PCM output file (no --codec)
    exit_status,      \* -1 while running, then the status main returned
    finished,         \* "Finished. Output written to ..." was printed
    dec_out,          \* history: the PCM blocks audio_decoder_read returned, concatenated
    pulled,           \* history: the frames audio_filter_pull returned, concatenated
    any_error,        \* history: some stage reported a failure to main
    stream_fail,      \* history: a stage failed inside the streaming loop
    after_fail,       \* history: a decoded block was processed after such a failure
    finalize_ret,     \* history: what audio_enc_finalize returned (1: not called)
    last_read,        \* history: the last audio_decoder_read call: what it returned,
                      \* whether a library call failed in it, the samples it gave
    last_pull,        \* history: the last audio_filter_pull call: what it returned
                      \* (1: not called) and whether *out_frame was NULL
    faults,           \* library calls that have failed so far; the runs explored
                      \* are those in which at most one library call fails
    heap,             \* history: how often each resource of the libraries has
                      \* been acquired and released
    filter_frees      \* history: calls of audio_filter_free so far

\* what the command line and the input file fix for the whole run
args == <<codec_name, quality_str, bitrate_str, filter_desc, input_rate,
          use_encoder, use_filter, codec_frame_size>>

vars == <<pc, args, decoder, filter, encoder,
          reads, out_file, exit_status, finished, dec_out, pulled, any_error,
          stream_fail, after_fail, finalize_ret, last_read, last_pull, faults,
          heap, filter_frees>>

\* the codecs and filter descriptions of the runs explored
CodecNames == {"libmp3lame", "libopus"}
FilterDescs == {"volume=0.5", "duplicate", "asetnsamples=n=1024", "aresample=48000"}

\* the state in which main starts, whatever its arguments
MainEntry ==
    /\ pc = "init"
    /\ use_encoder = (codec_name # "")
    /\ use_filter = (filter_desc # "")
    /\ decoder = ZeroDec
    /\ filter = ZeroFilter
    /\ encoder = ZeroEnc(NoHistory)
    /\ reads = 0
    /\ out_file = <<>>
    /\ exit_status = 0 - 1
    /\ finished = FALSE
    /\ dec_out = <<>>
    /\ pulled = <<>>
    /\ any_error = FALSE
    /\ stream_fail = FALSE
    /\ after_fail = FALSE
    /\ finalize_ret = 1
    /\ last_read = [ret |-> 1, error |-> FALSE, samples |-> 0, bufs |-> 0,
                    buf_frees |-> 0, frames |-> 0, frame_frees |-> 0]
    /\ last_pull = [ret |-> 1, out_null |-> TRUE, frames |-> 0, frame_frees |-> 0]
    /\ faults = 0
    /\ heap = EmptyHeap
    /\ filter_frees = 0

Init ==
    /\ codec_name \in CodecNames \cup {""}
    /\ quality_str = NULLSTR
    /\ bitrate_str = NULLSTR
    /\ filter_desc \in FilterDescs \cup {""}
    /\ input_rate = 44100
    /\ codec_frame_size \in (IF codec_name # "" THEN 0..MaxFrameSize ELSE {0})
    /\ MainEntry

\* a choice of outcomes in which no library call fails
Clean(c) == c.step = "go" /\ c.fault = NoFault

\* main, from audio_dec_init to the start of the loop: c names the call that
\* fails, if any
InitChoices ==
    {[step |-> "go", fault |-> NoFault]}
    \cup {[step |-> "dec", fault |-> Fault(DecInitSteps[i], 0)] :
              i \in 1..Len(DecInitSteps)}
    \cup (IF use_filter
          THEN {[step |-> "filter", fault |-> Fault(FilterInitSteps[i], 0)] :
                    i \in 1..Len(FilterInitSteps)}
          ELSE {})
    \cup (IF use_encoder
          THEN {[step |-> "go", fault |-> Fault(s, 0)] : s \in InitStages}
          ELSE {[step |-> "fopen", fault |-> NoFault]})

MainSetup(c) ==
    LET d == audio_dec_init(decoder, input_rate, c.step = "dec")
        f == audio_filter_init(filter, d.d.sample_rate, filter_desc,
                               c.step = "filter")
        e == audio_enc_init(encoder, codec_name, d.d.sample_rate,
                            parse_quality(quality_str), bitrate_str,
                            codec_frame_size, c.fault)
        dh == audio_dec_init_heap(IF c.step = "dec" THEN c.fault.stage ELSE "none")
        fh == audio_filter_init_heap(IF c.step = "filter" THEN c.fault.stage
                                     ELSE "none")
        eh == audio_enc_init_heap(
                  EncFailingStep(codec_name, d.d.sample_rate,
                                 parse_quality(quality_str), bitrate_str,
                                 codec_frame_size, c.fault))
        h1 == Account(heap, dh.acquired, dh.released)
        h2 == IF use_filter THEN Account(h1, fh.acquired, fh.released) ELSE h1
        h3 == IF use_encoder THEN Account(h2, eh.acquired, eh.released) ELSE h2
    IN  IF d.ret < 0
        THEN [ok |-> FALSE, decoder |-> d.d, filter |-> filter, encoder |-> encoder,
              heap |-> h1, freed |-> 0]
        ELSE IF use_filter /\ f.ret < 0
        THEN [ok |-> FALSE, decoder |-> audio_dec_free(d.d), filter |-> f.f,
              encoder |-> encoder,
              heap |-> Account(h2, {}, audio_dec_free_heap(d.d)), freed |-> 0]
        ELSE LET f1 == IF use_filter THEN f.f ELSE filter
                 f2 == IF use_filter THEN audio_filter_free(f1) ELSE f1
                 undone == (IF use_filter THEN audio_filter_free_heap(f1) ELSE <<>>)
                               \o audio_dec_free_heap(d.d)
             IN  IF use_encoder
                 THEN IF e.ret < 0
                      THEN [ok |-> FALSE, decoder |-> audio_dec_free(d.d),
                            filter |-> f2, encoder |-> e.e,
                            heap |-> Account(h3, {}, undone),
                            freed |-> IF use_filter THEN 1 ELSE 0]
                      ELSE [ok |-> TRUE, decoder |-> d.d, filter |-> f1,
                            encoder |-> e.e, heap |-> h3, freed |-> 0]
                 ELSE IF c.step = "fopen"
                      THEN [ok |-> FALSE, decoder |-> audio_dec_free(d.d),
                            filter |-> f2, encoder |-> encoder,
                            heap |-> Account(h3, {}, undone),
                            freed |-> IF use_filter THEN 1 ELSE 0]
                      ELSE [ok |-> TRUE, decoder |-> d.d, filter |-> f1,
                            encoder |-> encoder, heap |-> h3, freed |-> 0]

MainInit ==
    /\ pc = "init"
    /\ \E c \in InitChoices :
         \E r \in {MainSetup(c)} :
             /\ (Clean(c) \/ faults = 0)
             /\ faults' = IF Clean(c) THEN faults ELSE faults + 1
             /\ decoder' = r.decoder
             /\ filter' = r.filter
             /\ encoder' = r.encoder
             /\ heap' = r.heap
             /\ filter_frees' = filter_frees + r.freed
             /\ pc' = IF r.ok THEN "loop" ELSE "done"
             /\ exit_status' = IF r.ok THEN exit_status ELSE 1
    /\ UNCHANGED <<args, reads, out_file, finished, dec_out, pulled, any_error,
                   stream_fail, after_fail, finalize_ret, last_read, last_pull>>

\* faulty variant of fwrite: the first sample of the buffer is not written
fwrite_SkipsFirst(file, data) == file \o Tail(data)

\* fwrite(data, 1, size, output_file): the buffer is appended to the file
fwrite(file, data) == file \o data

\* the body of the while loop for a block with data: c names the call that
\* fails, if any.  brk: the loop is left by break; err: a stage failed;
\* frames, frame_frees and data_frees count the av_frame_alloc that succeeded,
\* the av_frame_free(&frame) and the av_freep(&data) on the path taken
BodyChoices(data) ==
    {[step |-> s, fault |-> NoFault] : s \in {"frame_alloc", "fill"}}
    \cup IF use_filter
         THEN {[step |-> s, fault |-> NoFault] : s \in {"push", "go"}}
         ELSE IF use_encoder
         THEN {[step |-> "go", fault |-> f] : f \in WriteFaults(encoder, Frame(data))}
         ELSE {[step |-> "go", fault |-> NoFault]}

LoopBody(data, c) ==
    LET frame == PcmFrame(data, decoder.sample_rate)
        none == [pc |-> "loop", filter |-> filter, encoder |-> encoder,
                 out_file |-> out_file, err |-> FALSE, brk |-> FALSE,
                 processed |-> FALSE, frames |-> 0, frame_frees |-> 0,
                 data_frees |-> 0]
        \* past av_frame_alloc every path has one av_frame_free(&frame) and
        \* one av_freep(&data)
        same == [none EXCEPT !.frames = 1, !.frame_frees = 1, !.data_frees = 1]
    IN  IF c.step = "frame_alloc"
        THEN [none EXCEPT !.pc = "finalize", !.brk = TRUE]
        ELSE IF c.step = "fill"
        THEN [same EXCEPT !.err = TRUE]
        ELSE IF use_filter
        THEN LET p == audio_filter_push(filter, frame, c.step = "push")
             IN  IF p.ret < 0
                 THEN [same EXCEPT !.err = TRUE, !.processed = TRUE]
                 ELSE [same EXCEPT !.pc = "pull", !.filter = p.f, !.processed = TRUE]
        ELSE IF use_encoder
        THEN LET w == audio_enc_write_frame(encoder, frame, c.fault)
             IN  [same EXCEPT !.encoder = w.e, !.err = w.ret < 0, !.processed = TRUE]
        ELSE [same EXCEPT !.out_file = fwrite(out_file, data), !.processed = TRUE]

\* faulty variant of HasData: every block is processed, empty or not
HasData_Always(data) == TRUE

\* the test main makes on what audio_decoder_read gave: data && size > 0
HasData(data) == ~data.null /\ Len(data.data) > 0

\* what is kept of an audio_decoder_read call and the loop body after it:
\* bufs is 1 when the call gave main a PCM buffer, buf_frees, frames and
\* frame_frees are the counts of the body
ReadRecord(r, in, data_frees, frames, frame_frees) ==
    [ret |-> r.ret, error |-> in.kind \in ReadFailures,
     samples |-> Len(r.data.data),
     bufs |-> IF r.data.null THEN 0 ELSE 1, buf_frees |-> data_frees,
     frames |-> frames, frame_frees |-> frame_frees]

\* one audio_decoder_read call and the loop body that follows it
ReadStep(outcomes) ==
    /\ pc = "loop"
    /\ \E in \in outcomes :
         \E r \in {audio_decoder_read(decoder, in)} :
             /\ in.kind \in ReadFailures => faults = 0
             /\ decoder' = r.d
             /\ reads' = IF in.kind \in {"eof", "read_error"} THEN reads ELSE reads + 1
             /\ dec_out' = dec_out \o r.data.data
             /\ IF r.ret = 0
                THEN /\ pc' = "finalize"
                     /\ last_read' = ReadRecord(r, in, 0, 0, 0)
                     /\ faults' = IF in.kind \in ReadFailures THEN faults + 1 ELSE faults
                     /\ UNCHANGED <<filter, encoder, out_file, any_error, stream_fail,
                                    after_fail>>
                ELSE IF HasData(r.data)
                THEN \E c \in BodyChoices(r.data.data) :
                       \E b \in {LoopBody(r.data.data, c)} :
                           /\ (Clean(c) \/ faults = 0)
                           /\ last_read' = ReadRecord(r, in, b.data_frees, b.frames,
                                                      b.frame_frees)
                           /\ faults' = IF Clean(c) THEN faults ELSE faults + 1
                           /\ pc' = b.pc
                           /\ filter' = b.filter
                           /\ encoder' = b.encoder
                           /\ out_file' = b.out_file
                           /\ any_error' = (any_error \/ b.err \/ b.brk)
                           /\ stream_fail' = (stream_fail \/ b.err)
                           /\ after_fail' = (after_fail \/ (stream_fail /\ b.processed))
                ELSE /\ pc' = "loop"
                     /\ last_read' = ReadRecord(r, in, 0, 0, 0)
                     /\ faults' = IF in.kind \in ReadFailures THEN faults + 1 ELSE faults
                     /\ UNCHANGED <<filter, encoder, out_file, any_error, stream_fail,
                                    after_fail>>
    /\ UNCHANGED <<args, exit_status, finished, finalize_ret, last_pull, pulled,
                   heap, filter_frees>>

\* the step of main in the streaming loop, with a codec that makes one frame
\* of a packet and hands it out at once
MainRead == ReadStep(ReadOutcomes(reads < MaxReads))

\* the av_frame_free(&filtered_frame) of the pull loop's body, which runs
\* when the pull returned >= 0
PullLoopFrees(ret) == IF ret >= 0 THEN 1 ELSE 0

\* one turn of the pull loop: audio_filter_pull, then the frame is encoded
\* or written to the file
MainPull ==
    /\ pc = "pull"
    /\ \E out \in PullOutcomes(filter) :
         \E p \in {audio_filter_pull(filter, out)} :
             /\ out.kind \in {"enomem", "fault"} => faults = 0
             /\ filter' = p.f
             /\ last_pull' = [ret |-> p.ret, out_null |-> p.out_frame.null,
                              frames |-> p.allocs,
                              frame_frees |-> p.frees + PullLoopFrees(p.ret)]
             /\ pulled' = pulled \o p.out_frame.data
             /\ IF p.ret >= 0
                THEN /\ pc' = "pull"
                     /\ IF use_encoder
                        THEN \E fault \in WriteFaults(encoder, p.out_frame) :
                               /\ (fault = NoFault \/ faults = 0)
                               /\ \E w \in {audio_enc_write_frame(encoder, p.out_frame, fault)} :
                                   /\ faults' = IF fault = NoFault THEN faults
                                                ELSE faults + 1
                                   /\ encoder' = w.e
                                   /\ any_error' = (any_error \/ w.ret < 0)
                                   /\ stream_fail' = (stream_fail \/ w.ret < 0)
                                   /\ out_file' = out_file
                        ELSE /\ out_file' = fwrite(out_file, p.out_frame.data)
                             /\ UNCHANGED <<encoder, any_error, stream_fail, faults>>
                ELSE /\ pc' = "loop"
                     /\ any_error' = (any_error \/ out.kind \in {"enomem", "fault"})
                     /\ stream_fail' = (stream_fail \/ out.kind \in {"enomem", "fault"})
                     /\ faults' = IF out.kind \in {"enomem", "fault"} THEN faults + 1
                                  ELSE faults
                     /\ UNCHANGED <<encoder, out_file>>
    /\ UNCHANGED <<args, decoder, reads, exit_status, finished, dec_out,
                   after_fail, finalize_ret, last_read, heap, filter_frees>>

\* after the loop: audio_enc_finalize and audio_enc_free, or fclose
MainFinalize ==
    /\ pc = "finalize"
    /\ IF use_encoder
       THEN \E fault \in FinalizeFaults(encoder) :
              \E r \in {audio_enc_finalize(encoder, fault)} :
                  /\ (fault = NoFault \/ faults = 0)
                  /\ faults' = IF fault = NoFault THEN faults ELSE faults + 1
                  /\ encoder' = audio_enc_free(r.e)
                  /\ heap' = Account(heap, {}, audio_enc_free_heap(EncHeldBy(r.e)))
                  /\ finalize_ret' = r.ret
                  /\ any_error' = (any_error \/ r.ret < 0)
       ELSE UNCHANGED <<encoder, any_error, finalize_ret, faults, heap>>
    /\ pc' = "cleanup"
    /\ UNCHANGED <<args, decoder, filter, reads, out_file, exit_status, finished,
                   dec_out, pulled, stream_fail, after_fail, last_read, last_pull,
                   filter_frees>>

\* the cleanup, the closing message and return 0
MainCleanup ==
    /\ pc = "cleanup"
    /\ filter' = IF use_filter THEN audio_filter_free(filter) ELSE filter
    /\ decoder' = audio_dec_free(decoder)
    /\ heap' = Account(heap, {},
                       (IF use_filter THEN audio_filter_free_heap(filter) ELSE <<>>)
                           \o audio_dec_free_heap(decoder))
    /\ filter_frees' = IF use_filter THEN filter_frees + 1 ELSE filter_frees
    /\ finished' = TRUE
    /\ exit_status' = 0
    /\ pc' = "done"
    /\ UNCHANGED <<args, encoder, reads, out_file, dec_out, pulled, any_error,
                   stream_fail, after_fail, finalize_ret, last_read, last_pull,
                   faults>>

Next == MainInit \/ MainRead \/ MainPull \/ MainFinalize \/ MainCleanup

Spec == Init /\ [][Next]_vars

\* ------------------------------------------------------------- properties
\* the frames handed to the encoder (avcodec_send_frame with a frame), in order
FrameRecs == SelectSeq(encoder.sent, LAMBDA r : r.kind = "frame")

RECURSIVE ConcatData(_)
ConcatData(recs) ==
    IF recs = <<>> THEN <<>> ELSE Head(recs).data \o ConcatData(Tail(recs))

\* the samples handed to the encoder, in order
Handed == ConcatData(FrameRecs)

\* the samples of the first n records
RECURSIVE SumLen(_, _)
SumLen(recs, n) == IF n = 0 THEN 0 ELSE SumLen(recs, n - 1) + Len(recs[n].data)

HasRec(kind) == \E i \in 1..Len(encoder.sent) : encoder.sent[i].kind = kind

IsPrefix(a, b) == Len(a) <= Len(b) /\ SubSeq(b, 1, Len(a)) = a

\* a is b with some elements left out
RECURSIVE IsSubseq(_, _)
IsSubseq(a, b) ==
    IF a = <<>> THEN TRUE
    ELSE IF b = <<>> THEN FALSE
    ELSE IF Head(a) = Head(b) THEN IsSubseq(Tail(a), Tail(b))
    ELSE IsSubseq(a, Tail(b))

\* C1: a frame read from the FIFO while blocks are being written (finish = 0)
\* has exactly frame_size samples; no frame is longer; a shorter frame comes
\* from the end-of-stream flush (finish = 1) and no frame follows it.
C1_FullFramesUntilFlush ==
    \A i \in 1..Len(FrameRecs) :
        /\ ~FrameRecs[i].finish => Len(FrameRecs[i].data) = codec_frame_size
        /\ Len(FrameRecs[i].data) <= codec_frame_size
        /\ Len(FrameRecs[i].data) < codec_frame_size
               => FrameRecs[i].finish /\ i = Len(FrameRecs)

C1_Witness ==
    /\ Len(FrameRecs) >= 2
    /\ ~FrameRecs[1].finish
    /\ FrameRecs[Len(FrameRecs)].finish
    /\ Len(FrameRecs[Len(FrameRecs)].data) < codec_frame_size

\* C2: round trip of the FIFO: what was read out, followed by what is still
\* buffered, is what was written, in order; and once the end-of-stream flush
\* has drained the FIFO (the flush signal follows it), the frames read out,
\* remainder included, are exactly the samples written.
C2_FifoRoundTrip ==
    /\ IsPrefix(Handed, encoder.fifo_in)
    /\ encoder.codec_ctx => Handed \o encoder.fifo = encoder.fifo_in
    /\ HasRec("flush") => Handed = encoder.fifo_in

C2_Witness ==
    /\ HasRec("flush")
    /\ Len(FrameRecs) >= 2
    /\ FrameRecs[Len(FrameRecs)].finish
    /\ Len(FrameRecs[Len(FrameRecs)].data) < codec_frame_size
    /\ Handed = encoder.fifo_in

C4_PtsIsRunningTotal ==
    /\ \A i \in 1..Len(FrameRecs) : FrameRecs[i].pts = SumLen(FrameRecs, i - 1)
    /\ encoder.codec_ctx => encoder.pts = SumLen(FrameRecs, Len(FrameRecs))

C4_Witness ==
    /\ Len(FrameRecs) = 3
    /\ FrameRecs[1].pts = 0
    /\ FrameRecs[2].pts = Len(FrameRecs[1].data)
    /\ FrameRecs[3].pts = Len(FrameRecs[1].data) + Len(FrameRecs[2].data)
    /\ Len(FrameRecs[1].data) >= 2
    /\ Len(FrameRecs[3].data) < Len(FrameRecs[1].data)

\* the frames the encoder accepted (avcodec_send_frame returned success)
AcceptedRecs == SelectSeq(encoder.sent, LAMBDA r : r.kind = "frame" /\ r.ok)

Count(kind) == Len(SelectSeq(encoder.sent, LAMBDA r : r.kind = kind))

\* C5 as claimed: the pts of each frame the encoder accepted is the number of
\* samples of the frames it accepted before.
C5_Claimed_AcceptedGapFree ==
    \A i \in 1..Len(AcceptedRecs) : AcceptedRecs[i].pts = SumLen(AcceptedRecs, i - 1)

\* C6: every frame handed to the encoder has at least one sample and a pts
\* greater than that of the frame before it, whatever frame size the FIFO
\* was created with (which is never 0).
C6_PtsStrictlyIncreasing ==
    /\ encoder.codec_ctx => encoder.frame_size >= 1
    /\ \A i \in 1..Len(FrameRecs) :
           /\ Len(FrameRecs[i].data) >= 1
           /\ i > 1 => FrameRecs[i].pts > FrameRecs[i - 1].pts

C6_Witness ==
    /\ Len(FrameRecs) >= 3
    /\ FrameRecs[Len(FrameRecs)].finish
    /\ FrameRecs[1].pts < FrameRecs[2].pts
    /\ FrameRecs[2].pts < FrameRecs[3].pts

\* C7: end-of-stream order.  The remainder frames, the flush signal and the
\* trailer come only once the loop is over; after a remainder frame come
\* only remainder frames, the flush signal and the trailer; after the flush
\* signal comes nothing but the trailer; the trailer is last and directly
\* follows a flush signal the encoder accepted; and when the flush signal is
\* sent every sample written to the FIFO has already been handed over.
C7_EndOfStreamOrder ==
    LET sent == encoder.sent
    IN  /\ \A i \in 1..Len(sent) :
               (sent[i].finish \/ sent[i].kind \in {"flush", "trailer"})
                   => pc \in {"cleanup", "done"}
        /\ \A i \in 1..Len(sent) : \A j \in (i + 1)..Len(sent) :
               /\ sent[i].finish => (sent[j].kind = "frame" => sent[j].finish)
               /\ sent[i].kind = "flush" => sent[j].kind = "trailer"
               /\ sent[i].kind # "trailer"
        /\ \A j \in 1..Len(sent) :
               sent[j].kind = "trailer"
                   => j > 1 /\ sent[j - 1].kind = "flush" /\ sent[j - 1].ok
        /\ HasRec("flush") => Len(Handed) = Len(encoder.fifo_in)

C7_Witness ==
    LET sent == encoder.sent
    IN  /\ Len(sent) >= 4
        /\ sent[1].kind = "frame" /\ ~sent[1].finish
        /\ sent[Len(sent) - 2].kind = "frame" /\ sent[Len(sent) - 2].finish
        /\ sent[Len(sent) - 1].kind = "flush"
        /\ sent[Len(sent)].kind = "trailer"

\* C8 as claimed: in every run in which the encoder was initialised the
\* flush signal is sent once and the trailer is written once.
C8_Claimed_FlushAndTrailerOnce ==
    (pc = "done" /\ use_encoder /\ finished)
        => Count("flush") = 1 /\ Count("trailer") = 1

\* C8 as amended: the flush signal is sent at most once and the trailer is
\* written at most once, after the flush signal; when audio_enc_finalize
\* returns success, whatever the number of decoded blocks (zero included),
\* each has happened exactly once.
C8_FlushAndTrailerOnceOnSuccess ==
    /\ Count("flush") <= 1
    /\ Count("trailer") <= 1
    /\ HasRec("trailer") => HasRec("flush")
    /\ (use_encoder /\ finalize_ret = 0 /\ pc \in {"cleanup", "done"})
           => /\ Count("flush") = 1 /\ Count("trailer") = 1
              /\ encoder.sent[Len(encoder.sent)].kind = "trailer"
    /\ (use_encoder /\ (pc = "cleanup" \/ finished)) => finalize_ret <= 0

C8_Witness ==
    /\ pc = "done" /\ use_encoder /\ finished
    /\ reads = 0 /\ dec_out = <<>>
    /\ finalize_ret = 0
    /\ Len(encoder.sent) = 2
    /\ encoder.sent[1].kind = "flush"
    /\ encoder.sent[2].kind = "trailer"

\* C9 as claimed: once a stage has failed inside the streaming loop, no
\* further decoded block is processed.
C9_Claimed_FailureStopsLoop == ~after_fail

\* C10 as claimed: a run in which a stage reported a failure does not end
\* with the success message and exit status 0.
C10_Claimed_FailureIsReported ==
    (pc = "done" /\ any_error) => (exit_status # 0 /\ ~finished)

\* C11 as claimed: audio_decoder_read returns a negative value whenever a
\* library call failed in it (reading, decoding, allocating, resampling), and
\* returns 0 only when the end of the file was reached without a failure.
C11_Claimed_ErrorsAreNegative ==
    /\ last_read.error => last_read.ret < 0
    /\ last_read.ret = 0 => ~last_read.error

\* what audio_filter_pull returns when the graph has no more output for the
\* blocks pushed so far, and when the pull failed for good
PullExhausted == {AVERROR(EAGAIN), AVERROR_EOF}
PullFatal(ret) == ret < 0 /\ ret \notin PullExhausted

\* C12 as claimed: exhaustion and a fatal fault are different results of
\* audio_filter_pull, and after a pull that failed for good main does not go
\* on as it does after exhaustion (back to the read loop, to push the next
\* block).
C12_Claimed_FatalPullNotExhaustion ==
    /\ \A ret \in PullExhausted : ~PullFatal(ret)
    /\ PullFatal(last_pull.ret) => pc \notin {"loop", "pull"}

\* C13 as claimed: a block is pushed successfully only when no pull was made
\* yet or the last pull reported that the graph had no more output; and the
\* samples of the pulled frames reach the FIFO in the order they were pulled.
C13_Claimed_PullUntilExhausted ==
    [][(pc = "loop" /\ pc' = "pull")
           => (last_pull.ret = 1 \/ last_pull.ret \in PullExhausted)]_vars

\* C16: a read that consumed a packet and returned 1 without samples (a
\* packet of another stream, a packet that produced no frame, a frame of no
\* samples) changes nothing downstream: the filter, the encoder (its FIFO, its
\* pts, the frames handed over) and the output file are as before, and main
\* is back at the next read.
C16_EmptyReadIsNoOp ==
    [][(pc = "loop" /\ reads' = reads + 1
            /\ last_read'.ret = 1 /\ last_read'.samples = 0)
           => (UNCHANGED <<filter, encoder, out_file, dec_out>> /\ pc' = "loop")]_vars

C16_Witness ==
    /\ pc = "loop" /\ use_encoder
    /\ last_read.ret = 1 /\ last_read.samples = 0 /\ ~last_read.error
    /\ reads = 2
    /\ encoder.pts > 0 /\ Len(encoder.fifo) > 0
    /\ Len(FrameRecs) = 1

\* the encoder after `count` blocks of n samples each, numbered from `from`,
\* have been written with audio_enc_write_frame, no library call failing
RECURSIVE WriteBlocks(_, _, _, _)
WriteBlocks(e, from, n, count) ==
    IF count = 0 THEN e
    ELSE WriteBlocks(
             audio_enc_write_frame(
                 e, PcmFrame([i \in 1..n |-> from + i - 1], e.sample_rate), NoFault).e,
             from + n, n, count - 1)

\* what reaches the external encoder when `count` blocks of n samples are
\* encoded with frame size N and the stream is finalized
EncodeBlocks(N, n, count) ==
    LET e0 == audio_enc_init(ZeroEnc(NoHistory), "libmp3lame", 44100,
                             AUDIO_QUALITY_HIGH, NULLSTR, N, NoFault).e
        e1 == WriteBlocks(e0, 1, n, count)
    IN  SelectSeq(audio_enc_finalize(e1, NoFault).e.sent, LAMBDA r : r.kind = "frame")

\* scenario A: three blocks of 500 samples, frames of 1152 samples
ScenarioA == EncodeBlocks(1152, 500, 3)

\* C14: without a filter, at the end of a run in which nothing failed, T
\* decoded samples and frame size N >= 1 have given floor(T/N) frames of N
\* samples followed, when T mod N is not zero, by one frame of T mod N
\* samples; frame i has pts (i-1)*N.  For three blocks of 500 samples and
\* N = 1152: a frame of 1152 samples at pts 0, then one of 348 at pts 1152
\* (a fact that does not depend on the state, evaluated in the initial ones).
C14_FramesOfScenarioA ==
    /\ (pc = "done" /\ finished /\ use_encoder /\ ~use_filter /\ ~any_error) =>
           LET T == Len(dec_out)
               N == codec_frame_size
           IN  /\ N >= 1
               /\ Len(FrameRecs) = (T \div N) + (IF T % N # 0 THEN 1 ELSE 0)
               /\ \A i \in 1..Len(FrameRecs) :
                      /\ FrameRecs[i].pts = (i - 1) * N
                      /\ Len(FrameRecs[i].data) = IF i <= T \div N THEN N ELSE T % N
    /\ pc = "init" =>
           /\ Len(ScenarioA) = 2
           /\ Len(ScenarioA[1].data) = 1152 /\ ScenarioA[1].pts = 0
           /\ Len(ScenarioA[2].data) = 348 /\ ScenarioA[2].pts = 1152
           /\ ~ScenarioA[1].finish /\ ScenarioA[2].finish

\* three blocks that fill one frame and leave a remainder
C14_Witness ==
    /\ pc = "done" /\ finished /\ use_encoder /\ ~use_filter /\ ~any_error
    /\ reads = 3 /\ Len(dec_out) = 5 /\ codec_frame_size = 3
    /\ Len(FrameRecs) = 2
    /\ FrameRecs[1].data = <<1, 2, 3>> /\ FrameRecs[1].pts = 0
    /\ FrameRecs[2].data = <<4, 5>> /\ FrameRecs[2].pts = 3

CeilDiv(a, b) == (a + b - 1) \div b

\* every frame that waits at the sink of the filter is pulled and written to
\* the encoder, as the drain loop of main does when nothing fails
RECURSIVE DrainQueue(_, _)
DrainQueue(f, e) ==
    IF f.queue = <<>> THEN [f |-> f, e |-> e]
    ELSE LET p == audio_filter_pull(f, [kind |-> "frame", n |-> Len(Head(f.queue))])
         IN  DrainQueue(p.f, audio_enc_write_frame(e, p.out_frame, NoFault).e)

\* the encoder after `count` blocks of n samples each, numbered from `from`,
\* have been pushed into the filter and its output has been drained
RECURSIVE FilterBlocks(_, _, _, _, _)
FilterBlocks(f, e, from, n, count) ==
    IF count = 0 THEN e
    ELSE LET block == PcmFrame([i \in 1..n |-> from + i - 1], f.in_rate)
             d == DrainQueue(audio_filter_push(f, block, FALSE).f, e)
         IN  FilterBlocks(d.f, d.e, from + n, n, count - 1)

\* what reaches the external encoder when `count` blocks of n samples pass
\* through the filter and are encoded with frame size N
FilterAndEncodeBlocks(filter_description, N, n, count) ==
    LET f0 == audio_filter_init(ZeroFilter, 44100, filter_description, FALSE).f
        e0 == audio_enc_init(ZeroEnc(NoHistory), "libmp3lame", 44100,
                             AUDIO_QUALITY_HIGH, NULLSTR, N, NoFault).e
        e1 == FilterBlocks(f0, e0, 1, n, count)
    IN  SelectSeq(audio_enc_finalize(e1, NoFault).e.sent, LAMBDA r : r.kind = "frame")

\* scenario B: the blocks of scenario A through the duplicating filter
ScenarioB == FilterAndEncodeBlocks("duplicate", 1152, 500, 3)

\* C15 as claimed: at the end of a run with the duplicating filter in which
\* nothing failed, the encoder has been handed twice as many frames as the
\* same decoded blocks give without a filter (C14: T samples give
\* ceil(T/N) frames).
C15_Claimed_DoubleFrameCount ==
    (pc = "done" /\ finished /\ use_encoder /\ filter_desc = "duplicate" /\ ~any_error)
        => Len(FrameRecs) = 2 * CeilDiv(Len(dec_out), codec_frame_size)

\* C15 as amended: the duplicating filter doubles the samples, not the
\* frames.  The samples handed to the encoder are samples of the pulled
\* frames in pull order; at the end of a run in which nothing failed every
\* block was pulled twice, the frames are the 2T pulled samples cut into
\* ceil(2T/N) frames with pts 0, N, 2N, ..., which is twice the number without
\* the filter or one less.  For three blocks of 500 samples and N = 1152 that
\* is 3 frames (1152, 1152 and 696 samples at pts 0, 1152 and 2304), each
\* block twice in succession, against 2 frames without the filter.
C15_DuplicateDoublesSamples ==
    /\ (use_encoder /\ use_filter) => IsSubseq(Handed, pulled)
    /\ (pc = "done" /\ finished /\ use_encoder /\ filter_desc = "duplicate"
            /\ ~any_error) =>
           LET T == Len(dec_out)
               N == codec_frame_size
           IN  /\ Len(pulled) = 2 * T
               /\ Handed = pulled
               /\ Len(FrameRecs) = CeilDiv(2 * T, N)
               /\ Len(FrameRecs) \in {2 * CeilDiv(T, N) - 1, 2 * CeilDiv(T, N)}
               /\ \A i \in 1..Len(FrameRecs) : FrameRecs[i].pts = (i - 1) * N
    /\ pc = "init" =>
           /\ Len(ScenarioB) = 3 /\ Len(ScenarioA) = 2
           /\ \A i \in 1..3 : ScenarioB[i].pts = (i - 1) * 1152
           /\ Len(ScenarioB[1].data) = 1152 /\ Len(ScenarioB[2].data) = 1152
           /\ Len(ScenarioB[3].data) = 696
           /\ ConcatData(ScenarioB)
                  = [k \in 1..3000 |-> 500 * ((k - 1) \div 1000) + ((k - 1) % 500) + 1]

C15_Witness ==
    /\ pc = "done" /\ finished /\ use_encoder /\ filter_desc = "duplicate"
    /\ ~any_error
    /\ dec_out = <<1, 2, 3, 4>> /\ reads = 2 /\ codec_frame_size = 3
    /\ pulled = <<1, 2, 1, 2, 3, 4, 3, 4>>
    /\ Len(FrameRecs) = 3
    /\ FrameRecs[3].data = <<3, 4>> /\ FrameRecs[3].pts = 6

\* C17: with filtering disabled both converters work between equal rates
\* (the decoder converts at the rate of the file, the encoder is opened at
\* the rate of the decoder and is handed frames at that rate), so the
\* rate-scaled total of the input is the input total.  While the encoder is
\* open the converter carries nothing over, the samples written to the FIFO
\* are samples of the decoded blocks in order, and when nothing has failed
\* they are all of them, whatever the sizes of the blocks: the total that has
\* left the converter is within one sample of (here equal to) the
\* rate-scaled total that went in, after every block and so at the end of
\* the stream.
C17_ConverterKeepsTotal ==
    (use_encoder /\ ~use_filter /\ encoder.codec_ctx) =>
        LET in_rate == IF encoder.swr_init THEN encoder.swr_in_rate
                       ELSE decoder.sample_rate
            out_rate == encoder.sample_rate
            slack == Len(encoder.fifo_in) * in_rate - Len(dec_out) * out_rate
        IN  /\ in_rate = decoder.sample_rate
            /\ out_rate = decoder.sample_rate
            /\ encoder.swr_acc = 0
            /\ IsSubseq(encoder.fifo_in, dec_out)
            /\ (faults = 0 /\ pc \in {"loop", "finalize"}) =>
                   /\ Len(dec_out) = decoder.next - 1
                   /\ slack > 0 - in_rate /\ slack < in_rate
                   /\ encoder.fifo_in = dec_out

C17_Witness ==
    /\ pc = "finalize" /\ use_encoder /\ ~use_filter /\ encoder.codec_ctx
    /\ faults = 0 /\ reads = 3 /\ encoder.swr_init
    /\ encoder.swr_in_rate = 44100 /\ encoder.sample_rate = 44100
    /\ dec_out = <<1, 2, 3, 4>>
    /\ encoder.fifo_in = <<1, 2, 3, 4>>

C19_Claimed_EncoderAtFilterRate ==
    (pc # "init" /\ use_encoder /\ filter_desc = "aresample=48000"
         /\ codec_frame_size > 0 /\ faults = 0) =>
        /\ exit_status # 1
        /\ encoder.codec_ctx => encoder.sample_rate = filter.out_rate
        /\ (encoder.codec_ctx /\ encoder.swr_init)
               => encoder.swr_in_rate = encoder.sample_rate

\* ------------------------------------------------- runs over the presets
\* the codecs the README lists
PresetCodecs == {"libmp3lame", "aac", "libopus", "flac", "alac", "pcm_s16le"}

\* the presets by name, in the order of enum audio_quality
PresetNames ==
    << <<"l", "o", "w">>, <<"m", "e", "d", "i", "u", "m">>, <<"h", "i", "g", "h">>,
       <<"e", "x", "t", "r", "e", "m", "e">> >>

\* values of --quality: absent, the four presets, and a word that is none
QualityStrings ==
    {NULLSTR, Str(<<"b", "e", "s", "t">>)} \cup {Str(PresetNames[i]) : i \in 1..4}

\* values of --bitrate: absent, or an explicit rate
BitrateStrings == {NULLSTR, Str(<<"6", "4", "k">>)}

\* the program started with any codec, preset and bitrate option on a
\* 48000 Hz input, with or without a filter; pcm_s16le has no frame size
InitPreset ==
    /\ codec_name \in PresetCodecs
    /\ quality_str \in QualityStrings
    /\ bitrate_str \in BitrateStrings
    /\ filter_desc \in {"", "volume=0.5"}
    /\ input_rate = 48000
    /\ codec_frame_size = (IF codec_name = "pcm_s16le" THEN 0 ELSE 1)
    /\ MainEntry

SpecPreset == InitPreset /\ [][Next]_vars

\* the tables of the README: kbps per preset for the lossy codecs, and the
\* compression level per preset for the lossless ones
ReadmeKbps(codec) ==
    IF codec = "libmp3lame" THEN <<128, 192, 256, 320>>
    ELSE IF codec = "aac" THEN <<96, 160, 256, 320>>
    ELSE <<96, 128, 192, 256>>

ReadmeCompressionLevel == <<5, 8, 10, 12>>

BitrateInputs ==
    {NULLSTR,
     Str(<<"1", "9", "2", "k">>), Str(<<"3", "2", "0", "K">>),
     Str(<<"6", "4", "0", "0", "0">>), Str(<<>>),
     Str(<<"-", "1">>), Str(<<"9", "9", "9", "9", "9", "9", "9">>),
     Str(<<"2", "0", "0", "0", "k">>)}

\* the program started with a lossy or a lossless codec, with or without a
\* quality preset, and any of these bitrates
InitBitrate ==
    /\ codec_name \in {"libmp3lame", "flac"}
    /\ quality_str \in {NULLSTR, Str(<<"l", "o", "w">>)}
    /\ bitrate_str \in BitrateInputs
    /\ filter_desc \in {"", "volume=0.5"}
    /\ input_rate = 44100
    /\ codec_frame_size = 1
    /\ MainEntry

SpecBitrate == InitBitrate /\ [][Next]_vars

\* C21: with --bitrate given, let number be the number at the start of the
\* string, times 1000 when k or K follows it.  If the number is negative or
\* it or its thousandfold is out of the range of int64_t, audio_enc_init
\* fails with EINVAL, leaves the struct zeroed and main exits with status 1;
\* otherwise audio_enc_init succeeds and the bit rate of the encoder is
\* exactly number, whatever the quality preset (no compression level is
\* set): it is never negative and never a wrapped product.
C21_ExplicitBitrateOverrides ==
    ~bitrate_str.null =>
        LET p == strtoll(bitrate_str.chars)
            kilo == p.endptr # <<>> /\ Head(p.endptr) \in {"k", "K"}
            number == IF kilo THEN 1000 * p.value ELSE p.value
            bad == p.erange \/ p.value < 0 \/ number > INT64_MAX
            r == audio_enc_init(ZeroEnc(NoHistory), codec_name, input_rate,
                                parse_quality(quality_str), bitrate_str,
                                codec_frame_size, NoFault)
        IN  /\ bad => r.ret = AVERROR(EINVAL) /\ r.e = ZeroEnc(NoHistory)
            /\ ~bad => /\ r.ret = 0
                       /\ r.e.bit_rate = number
                       /\ r.e.compression_level = 0 - 1
            /\ (bad /\ pc # "init") =>
                   pc = "done" /\ exit_status = 1 /\ encoder = ZeroEnc(NoHistory)
            /\ encoder.codec_ctx =>
                   /\ ~bad
                   /\ encoder.bit_rate = number
                   /\ encoder.bit_rate >= 0 /\ encoder.bit_rate <= INT64_MAX
                   /\ encoder.compression_level = 0 - 1

C21_Witness ==
    /\ pc = "loop" /\ encoder.codec_ctx /\ reads = 1
    /\ codec_name = "libmp3lame"
    /\ quality_str = Str(<<"l", "o", "w">>)
    /\ bitrate_str = Str(<<"1", "9", "2", "k">>)
    /\ encoder.bit_rate = 192000
    /\ get_bitrate_for_quality(codec_name, parse_quality(quality_str)) = 128000

\* ------------------------------------- runs with repeated audio_filter_free
\* calls of audio_filter_free on one struct at most
MaxFreeCalls == 3

\* once main has returned, audio_filter_free is called again on its filter
\* struct, as a caller that cleans up more than once would
FilterFreeAgain ==
    /\ pc = "done" /\ use_filter
    /\ filter_frees >= 1 /\ filter_frees < MaxFreeCalls
    /\ filter' = audio_filter_free(filter)
    /\ heap' = Account(heap, {}, audio_filter_free_heap(filter))
    /\ filter_frees' = filter_frees + 1
    /\ UNCHANGED <<pc, args, decoder, encoder, reads, out_file, exit_status,
                   finished, dec_out, pulled, any_error, stream_fail, after_fail,
                   finalize_ret, last_read, last_pull, faults>>

InitFree ==
    /\ codec_name \in {"", "libmp3lame"}
    /\ quality_str = NULLSTR
    /\ bitrate_str = NULLSTR
    /\ filter_desc \in {"volume=0.5", "asetnsamples=n=1024"}
    /\ input_rate = 44100
    /\ codec_frame_size = (IF codec_name = "" THEN 0 ELSE 2)
    /\ MainEntry

NextFree == Next \/ FilterFreeAgain

SpecFree == InitFree /\ [][NextFree]_vars

\* C22: a call of audio_filter_free on a struct that holds a graph (from
\* before the step, or from audio_filter_init earlier in the same step of
\* main) releases the graph and clears the struct; a call on a struct that
\* holds none
\* releases nothing and changes neither the struct nor any resource; so the
\* graph is released once however often the function is called, and after
\* the first call the struct is cleared for good.
C22_FilterFreeIdempotent ==
    /\ [](heap["filter.graph"].released <= 1)
    /\ [](heap["filter.graph"].released <= heap["filter.graph"].acquired)
    /\ [](filter_frees >= 1 => filter = ZeroFilter /\ "filter.graph" \notin Live(heap))
    /\ [][filter_frees' = filter_frees + 1 =>
              IF filter.graph
                 \/ heap'["filter.graph"].acquired > heap["filter.graph"].acquired
              THEN /\ heap'["filter.graph"].released
                          = heap["filter.graph"].released + 1
                   /\ ~filter'.graph
              ELSE UNCHANGED <<filter, heap>>]_vars

C22_Witness ==
    /\ pc = "done" /\ filter_frees = MaxFreeCalls
    /\ heap["filter.graph"] = [acquired |-> 1, released |-> 1]
    /\ filter = ZeroFilter
    /\ finished /\ Len(pulled) > 0

\* every resource a call acquired is released by it exactly once, and it
\* releases nothing else
ReleasedOnce(h) ==
    /\ \A r \in h.acquired : Occurrences(h.released, r) = 1
    /\ \A i \in 1..Len(h.released) : h.released[i] \in h.acquired

\* C23: construction is all-or-nothing.  For each of the three init
\* functions and each step at which it can fail, what was acquired before
\* that step is released exactly once by the function itself, and it fails
\* exactly when a step fails.  In every run no resource is ever released
\* more often than it was acquired; while main streams, exactly the
\* resources of the components in use are live; and when main gives up
\* during construction (exit status 1) nothing is live, the decoder holds no
\* handle, the encoder struct is zeroed and the filter struct is as it was
\* before audio_filter_init, or cleared.
C23_ConstructionAllOrNothing ==
    /\ pc = "init" =>
           /\ \A i \in 1..Len(DecInitSteps) :
                  ReleasedOnce(audio_dec_init_heap(DecInitSteps[i]))
           /\ \A i \in 1..Len(FilterInitSteps) :
                  ReleasedOnce(audio_filter_init_heap(FilterInitSteps[i]))
           /\ \A i \in 1..Len(EncInitSteps) :
                  ReleasedOnce(audio_enc_init_heap(EncInitSteps[i]))
           /\ \A s \in InitStages :
                  LET r == audio_enc_init(encoder, codec_name, input_rate,
                                          parse_quality(quality_str), bitrate_str,
                                          codec_frame_size, Fault(s, 0))
                  IN  r.ret < 0 /\ r.e = ZeroEnc(NoHistory)
           /\ LET r == audio_enc_init(encoder, codec_name, input_rate,
                                      parse_quality(quality_str), bitrate_str,
                                      codec_frame_size, NoFault)
                  step == EncFailingStep(codec_name, input_rate,
                                         parse_quality(quality_str), bitrate_str,
                                         codec_frame_size, NoFault)
              IN  /\ (r.ret < 0) = (step # "none")
                  /\ r.ret < 0 => r.e = ZeroEnc(NoHistory)
                  /\ r.ret = 0 => EncHeldBy(r.e) = audio_enc_init_heap(step).acquired
    /\ \A r \in Resources :
           heap[r].acquired <= 1 /\ heap[r].released <= heap[r].acquired
    /\ pc \in {"loop", "pull", "finalize"} =>
           /\ Live(heap) = DecResources
                               \cup (IF use_filter THEN {"filter.graph"} ELSE {})
                               \cup (IF use_encoder THEN EncResources ELSE {})
           /\ decoder.open /\ (use_filter => filter.graph)
           /\ (use_encoder => encoder.fmt_ctx)
    /\ (pc = "done" /\ exit_status = 1) =>
           /\ Live(heap) = {}
           /\ ~decoder.open
           /\ encoder = ZeroEnc(NoHistory)
           /\ filter = ZeroFilter

C23_Witness ==
    /\ pc = "done" /\ exit_status = 1 /\ use_filter /\ use_encoder
    /\ faults = 1
    /\ heap["enc.fifo"] = [acquired |-> 1, released |-> 1]
    /\ heap["enc.swr_ctx"] = [acquired |-> 0, released |-> 0]
    /\ heap["filter.graph"] = [acquired |-> 1, released |-> 1]
    /\ heap["dec.fmt_ctx"] = [acquired |-> 1, released |-> 1]
    /\ filter_frees = 1
    /\ Live(heap) = {}

\* a step in which audio_enc_write_frame was called with a frame and got as
\* far as writing to the FIFO; the call succeeded if no library call failed
\* in the step
WroteToFifo == encoder.codec_ctx /\ Len(encoder'.fifo_in) > Len(encoder.fifo_in)

\* C24: the frame size of an open encoder is at least 1, and after every
\* audio_enc_write_frame call with a frame that returns success the FIFO
\* holds fewer than frame_size samples, even when an earlier call had failed
\* and left complete frames behind; as long as no call has failed the FIFO
\* holds fewer than frame_size samples between any two calls.
C24_FifoBelowFrameSizeAfterWrite ==
    /\ [](encoder.codec_ctx => encoder.frame_size >= 1)
    /\ []((encoder.codec_ctx /\ faults = 0) => Len(encoder.fifo) < encoder.frame_size)
    /\ [][(WroteToFifo /\ faults' = faults)
              => Len(encoder'.fifo) < encoder'.frame_size]_vars

C24_Witness ==
    /\ pc = "loop" /\ encoder.codec_ctx /\ encoder.frame_size = 3
    /\ faults = 1 /\ stream_fail
    /\ Len(encoder.fifo_in) = 6 /\ Len(FrameRecs) = 2
    /\ encoder.fifo = <<>>

\* the frames among the calls a finalize added to the history `before`
FlushFrames(before, after) ==
    SelectSeq(SubSeq(after.sent, Len(before.sent) + 1, Len(after.sent)),
              LAMBDA r : r.kind = "frame")

\* C25: when main reaches the end of the stream, whatever audio_enc_finalize
\* meets: it reads a frame from the FIFO only if the FIFO is not empty, and
\* if no library call fails in it, it reads one if the FIFO is not empty;
\* every frame it reads is marked as read by the flush; if it returns
\* success the FIFO is empty.  If no stage failed while streaming and none
\* fails in the flush, the flush of a non-empty FIFO produces exactly one
\* frame, which is the FIFO content, of 1 to frame_size - 1 samples.  And
\* what main does at that point is this call, followed by audio_enc_free.
C25_FinalFrameIffFifoNonEmpty ==
    /\ [](pc = "finalize" /\ use_encoder =>
            \A fault \in FinalizeFaults(encoder) :
                LET r == audio_enc_finalize(encoder, fault)
                    frames == FlushFrames(encoder, r.e)
                IN  /\ frames # <<>> => encoder.fifo # <<>>
                    /\ fault = NoFault => (frames # <<>> <=> encoder.fifo # <<>>)
                    /\ \A i \in 1..Len(frames) : frames[i].finish
                    /\ r.ret = 0 => r.e.fifo = <<>>
                    /\ (~stream_fail /\ fault = NoFault /\ encoder.fifo # <<>>) =>
                           /\ Len(frames) = 1
                           /\ frames[1].data = encoder.fifo
                           /\ Len(frames[1].data) >= 1
                           /\ Len(frames[1].data) <= encoder.frame_size - 1)
    /\ [][(pc = "finalize" /\ use_encoder) =>
              \E fault \in FinalizeFaults(encoder) :
                  /\ encoder' = audio_enc_free(audio_enc_finalize(encoder, fault).e)
                  /\ finalize_ret' = audio_enc_finalize(encoder, fault).ret]_vars

C25_Witness ==
    /\ pc = "done" /\ finished /\ use_encoder /\ finalize_ret = 0 /\ ~stream_fail
    /\ codec_frame_size = 3 /\ Len(FrameRecs) = 2
    /\ ~FrameRecs[1].finish
    /\ FrameRecs[2].finish /\ Len(FrameRecs[2].data) = 2
    /\ HasRec("flush") /\ HasRec("trailer")
    /\ encoder.fifo = <<>>

\* C26: sample conservation.  While the encoder is open, between any two
\* calls, pts plus the number of samples in the FIFO is the number of
\* converted samples written to the FIFO since audio_enc_init, whichever
\* calls have failed.  The same holds after audio_enc_finalize whatever
\* fails in it, and when it returns success pts is that number: in a run,
\* the frame handed over last then ends at the total written.
C26_SampleConservation ==
    /\ encoder.codec_ctx =>
           encoder.pts + Len(encoder.fifo) = Len(encoder.fifo_in)
    /\ (pc = "finalize" /\ use_encoder) =>
           \A fault \in FinalizeFaults(encoder) :
               LET r == audio_enc_finalize(encoder, fault)
               IN  /\ r.e.pts + Len(r.e.fifo) = Len(r.e.fifo_in)
                   /\ r.e.fifo_in = encoder.fifo_in
                   /\ r.ret = 0 => r.e.pts = Len(encoder.fifo_in)
    /\ (pc \in {"cleanup", "done"} /\ finalize_ret = 0 /\ FrameRecs # <<>>) =>
           LET last == FrameRecs[Len(FrameRecs)]
           IN  last.pts + Len(last.data) = Len(encoder.fifo_in)

C26_Witness ==
    /\ pc = "loop" /\ encoder.codec_ctx /\ encoder.frame_size = 2
    /\ encoder.pts = 2 /\ Len(encoder.fifo) = 1 /\ Len(encoder.fifo_in) = 3
    /\ reads = 2 /\ faults = 0

\* the outcomes of the calls encode_frame makes, as its third argument
EncodeStages == {"none", "send", "receive", "mux"}

\* C27: the flush signal is not a block.  In every state of an open encoder,
\* encode_frame with the NULL frame leaves pts and the FIFO content as they
\* are, whatever the encoder and the muxer answer, and adds one call to the
\* history, recorded as a flush and not as a frame; a block with no samples
\* is not taken for it: audio_enc_write_frame refuses it and sends no flush.
\* At the end of the stream the flush main sends is this call, made on what
\* the draining of the FIFO has left.
C27_FlushLeavesPtsAndFifo ==
    /\ encoder.codec_ctx =>
           /\ \A stage \in EncodeStages :
                  LET r == encode_frame(encoder, NULLFRAME, stage)
                  IN  /\ r.e.pts = encoder.pts
                      /\ r.e.fifo = encoder.fifo
                      /\ r.e.fifo_in = encoder.fifo_in
                      /\ Len(r.e.sent) = Len(encoder.sent) + 1
                      /\ r.e.sent[Len(r.e.sent)].kind = "flush"
                      /\ r.e.sent[Len(r.e.sent)].data = <<>>
                      /\ SubSeq(r.e.sent, 1, Len(encoder.sent)) = encoder.sent
           /\ LET w == audio_enc_write_frame(encoder, PcmFrame(<<>>, decoder.sample_rate), NoFault)
              IN  w.ret < 0 /\ w.e.sent = encoder.sent
    /\ (pc = "finalize" /\ use_encoder) =>
           \A fault \in FinalizeFaults(encoder) :
               LET d == encode_from_fifo(encoder, 1, fault, 1)
                   w == audio_enc_write_frame(encoder, NULLFRAME, fault)
               IN  d.ret = 0 =>
                       /\ w.e.pts = d.e.pts /\ w.e.fifo = d.e.fifo
                       /\ Len(w.e.sent) = Len(d.e.sent) + 1
                       /\ w.e.sent[Len(w.e.sent)].kind = "flush"

C27_Witness ==
    /\ pc = "cleanup" /\ use_encoder /\ faults = 0
    /\ Len(encoder.sent) >= 3
    /\ encoder.sent[Len(encoder.sent) - 1].kind = "flush"
    /\ encoder.sent[Len(encoder.sent) - 2].kind = "frame"
    /\ encoder.sent[Len(encoder.sent) - 2].pts = 2
    /\ Len(encoder.sent[Len(encoder.sent) - 2].data) = 1
    /\ Len(encoder.fifo_in) = 3

\* ------------------------------ a caller that goes on after audio_enc_finalize
\* main frees the encoder right after audio_enc_finalize.  In these runs the
\* two calls are made apart, and between them the caller may call
\* audio_enc_write_frame and audio_enc_finalize again, as audio_enc.h allows.
\* calls made after the first audio_enc_finalize that had an effect, at most
MaxLateCalls == 2

\* what such calls have left behind: the calls recorded after the trailer
\* and the samples in the FIFO, which the flush had emptied
LateEffects ==
    LET trailer == CHOOSE i \in 1..Len(encoder.sent) : encoder.sent[i].kind = "trailer"
    IN  (Len(encoder.sent) - trailer) + Len(encoder.fifo)

\* audio_enc_finalize alone, as MainFinalize calls it
ClientFinalize ==
    /\ pc = "finalize" /\ use_encoder
    /\ \E fault \in FinalizeFaults(encoder) :
         \E r \in {audio_enc_finalize(encoder, fault)} :
             /\ (fault = NoFault \/ faults = 0)
             /\ faults' = IF fault = NoFault THEN faults ELSE faults + 1
             /\ encoder' = r.e
             /\ finalize_ret' = r.ret
             /\ any_error' = (any_error \/ r.ret < 0)
    /\ pc' = "closed"
    /\ UNCHANGED <<args, decoder, filter, reads, out_file, exit_status, finished,
                   dec_out, pulled, stream_fail, after_fail, last_read, last_pull,
                   heap, filter_frees>>

\* the block of n samples that would follow those decoded so far
NextBlock(n) == PcmFrame([i \in 1..n |-> Len(dec_out) + i], decoder.sample_rate)

\* audio_enc_write_frame with a block, after a successful audio_enc_finalize
\* in a run in which no library call has failed
ClientWriteLate ==
    /\ pc = "closed" /\ finalize_ret = 0 /\ faults = 0
    /\ LateEffects < MaxLateCalls
    /\ \E n \in 1..MaxBlock :
         encoder' = audio_enc_write_frame(encoder, NextBlock(n), NoFault).e
    /\ UNCHANGED <<pc, args, decoder, filter, reads, out_file, exit_status,
                   finished, dec_out, pulled, any_error, stream_fail, after_fail,
                   finalize_ret, last_read, last_pull, faults, heap, filter_frees>>

\* audio_enc_finalize again, in such a run
ClientFinalizeAgain ==
    /\ pc = "closed" /\ finalize_ret = 0 /\ faults = 0
    /\ LateEffects < MaxLateCalls
    /\ encoder' = audio_enc_finalize(encoder, NoFault).e
    /\ UNCHANGED <<pc, args, decoder, filter, reads, out_file, exit_status,
                   finished, dec_out, pulled, any_error, stream_fail, after_fail,
                   finalize_ret, last_read, last_pull, faults, heap, filter_frees>>

\* audio_enc_free, and on to the cleanup of main
ClientFree ==
    /\ pc = "closed"
    /\ encoder' = audio_enc_free(encoder)
    /\ heap' = Account(heap, {}, audio_enc_free_heap(EncHeldBy(encoder)))
    /\ pc' = "cleanup"
    /\ UNCHANGED <<args, decoder, filter, reads, out_file, exit_status, finished,
                   dec_out, pulled, any_error, stream_fail, after_fail,
                   finalize_ret, last_read, last_pull, faults, filter_frees>>

InitClosed ==
    /\ codec_name = "libmp3lame"
    /\ quality_str = NULLSTR
    /\ bitrate_str = NULLSTR
    /\ filter_desc = "volume=0.5"
    /\ input_rate = 44100
    /\ codec_frame_size \in 2..MaxFrameSize
    /\ MainEntry

NextClosed ==
    Next \/ ClientFinalize \/ ClientWriteLate \/ ClientFinalizeAgain \/ ClientFree

SpecClosed == InitClosed /\ [][NextClosed]_vars

\* C28 as claimed: once audio_enc_finalize has returned success, and until
\* audio_enc_free, the encoder is closed.  audio_enc_write_frame with a block
\* returns a negative code, and no such call has put a sample into the FIFO
\* or handed a frame to the encoder (which is where pts advances); no second
\* flush signal and no second trailer has been sent: the trailer is the last
\* call in the history, and the FIFO is as the flush left it, empty.
C28_Claimed_ClosedAfterFinalize ==
    (pc = "closed" /\ finalize_ret = 0) =>
        /\ \A n \in 1..MaxBlock :
               audio_enc_write_frame(encoder, NextBlock(n), NoFault).ret < 0
        /\ encoder.fifo = <<>>
        /\ encoder.pts = Len(encoder.fifo_in)
        /\ Count("flush") = 1 /\ Count("trailer") = 1
        /\ encoder.sent[Len(encoder.sent)].kind = "trailer"

\* the sample rates a frame may carry in the runs explored
FrameRates == {44100, 48000}

\* C29: the converter of the encoder is configured by the first frame
\* written and by no other call.  As long as it is not configured nothing
\* has been written to the FIFO and nothing converted; a frame written then
\* configures it with the frame's rate unless the configuration itself fails
\* (then it stays unconfigured and the call fails); once it is configured, no
\* frame, whatever its rate, and no flush changes the configuration; a flush
\* neither configures nor uses it, so a stream of no frames ends with the
\* converter unconfigured (the calls that may fail here are those made once
\* per call, before and after the FIFO loop).  In a run it stays as configured from one step to
\* the next while the encoder is open, and its source rate is the rate of
\* the frames main writes.
C29_ConverterConfiguredOnce ==
    /\ [](encoder.codec_ctx =>
            /\ ~encoder.swr_init => (encoder.fifo_in = <<>> /\ encoder.swr_acc = 0)
            /\ encoder.swr_init =>
                   encoder.swr_in_rate = (IF use_filter THEN filter.out_rate
                                          ELSE decoder.sample_rate)
            /\ \A rate \in FrameRates :
                   LET frame == PcmFrame(<<1>>, rate)
                   IN  \A fault \in {NoFault} \cup {Fault(s, 0) : s \in WriteStages} :
                           LET w == audio_enc_write_frame(encoder, frame, fault)
                               cfg_fails == fault.stage \in {"swr_config", "swr_init"}
                           IN  IF encoder.swr_init
                               THEN /\ w.e.swr_init
                                    /\ w.e.swr_in_rate = encoder.swr_in_rate
                               ELSE IF cfg_fails
                               THEN /\ w.ret < 0 /\ ~w.e.swr_init
                                    /\ w.e.swr_in_rate = encoder.swr_in_rate
                               ELSE /\ w.e.swr_init
                                    /\ w.e.swr_in_rate = rate
            /\ \A fault \in {NoFault} \cup {Fault(s, 0) : s \in FlushStages} :
                   LET w == audio_enc_write_frame(encoder, NULLFRAME, fault)
                   IN  /\ w.e.swr_init = encoder.swr_init
                       /\ w.e.swr_in_rate = encoder.swr_in_rate
                       /\ w.e.swr_acc = encoder.swr_acc
                       /\ w.e.fifo_in = encoder.fifo_in)
    /\ [][(encoder.codec_ctx /\ encoder'.codec_ctx /\ encoder.swr_init) =>
              (encoder'.swr_init /\ encoder'.swr_in_rate = encoder.swr_in_rate)]_vars

C29_Witness ==
    /\ pc = "pull" /\ encoder.codec_ctx /\ encoder.swr_init
    /\ filter_desc = "aresample=48000"
    /\ encoder.swr_in_rate = 48000 /\ encoder.sample_rate = 44100
    /\ reads = 2 /\ Len(encoder.fifo_in) >= 2 /\ faults = 0

\* the library calls audio_enc_write_frame makes before it writes to the FIFO
EarlyStages == {"swr_config", "swr_init", "conv_alloc", "swr_convert"}

\* C30: audio_enc_write_frame on an encoder that is not open returns a
\* negative code and changes nothing.  On an open encoder, if a call made
\* before the FIFO write fails (the configuration of the converter, which
\* only an unconfigured converter goes through, the allocation of the
\* conversion buffer, the conversion), it returns a negative code, the FIFO
\* content, pts and the total written are as before and no frame or flush
\* has been handed to the encoder.  In a run, a step in which a library call
\* failed and nothing was written to the FIFO leaves FIFO, pts and the calls
\* to the encoder as they were.
C30_EarlyWriteFailureChangesNothing ==
    /\ [](\A rate \in FrameRates :
            LET frame == PcmFrame(<<1, 2>>, rate)
            IN  IF ~encoder.codec_ctx
                THEN LET w == audio_enc_write_frame(encoder, frame, NoFault)
                     IN  w.ret < 0 /\ w.e = encoder
                ELSE \A s \in EarlyStages :
                       LET w == audio_enc_write_frame(encoder, frame, Fault(s, 0))
                       IN  (s \in {"swr_config", "swr_init"} => ~encoder.swr_init) =>
                               /\ w.ret < 0
                               /\ w.e.fifo = encoder.fifo
                               /\ w.e.pts = encoder.pts
                               /\ w.e.fifo_in = encoder.fifo_in
                               /\ w.e.sent = encoder.sent)
    /\ [][(encoder.codec_ctx /\ encoder'.codec_ctx /\ faults' > faults
              /\ encoder'.fifo_in = encoder.fifo_in) =>
              /\ encoder'.fifo = encoder.fifo
              /\ encoder'.pts = encoder.pts
              /\ encoder'.sent = encoder.sent]_vars

C30_Witness ==
    /\ pc = "loop" /\ ~use_filter /\ encoder.codec_ctx
    /\ stream_fail /\ faults = 1 /\ ~last_read.error
    /\ encoder.swr_init /\ encoder.fifo_in = <<>>
    /\ encoder.fifo = <<>> /\ encoder.pts = 0 /\ encoder.sent = <<>>
    /\ Len(dec_out) = 2

\* v is num / den rounded up
IsCeiling(v, num, den) == v * den >= num /\ (v - 1) * den < num

C32_EncodeFromFifoTerminates ==
    /\ (pc # "init" /\ codec_frame_size = 0) => ~encoder.codec_ctx
    /\ (encoder.codec_ctx /\ pc \in {"loop", "pull", "finalize"}) =>
           /\ \A N \in 0..MaxFrameSize, finish \in {0, 1} :
                  LET e == [encoder EXCEPT !.frame_size = N]
                      r == encode_from_fifo(e, finish, NoFault, 1)
                      frames == FlushFrames(e, r.e)
                  IN  /\ \A i \in 1..Len(frames) : Len(frames[i].data) >= 1
                      /\ r.e.pts - e.pts = Len(e.fifo) - Len(r.e.fifo)
                      /\ Len(frames) <= Len(e.fifo)
                      /\ N >= 1 => /\ r.ret = 0
                                   /\ Len(r.e.fifo) < N
                                   /\ finish = 1 => r.e.fifo = <<>>
                      /\ N = 0 => (r.ret < 0 /\ r.e = e)
           /\ \A fault \in LoopFaults(Len(encoder.fifo)), finish \in {0, 1} :
                  LET r == encode_from_fifo(encoder, finish, fault, 1)
                      frames == FlushFrames(encoder, r.e)
                  IN  /\ \A i \in 1..Len(frames) : Len(frames[i].data) >= 1
                      /\ Len(frames) <= Len(encoder.fifo)
                      /\ r.e.pts - encoder.pts = Len(encoder.fifo) - Len(r.e.fifo)

C32_Witness ==
    /\ pc = "loop" /\ encoder.codec_ctx /\ encoder.frame_size = 1
    /\ Len(encoder.fifo) = 2 /\ stream_fail /\ faults = 1
    /\ encoder.pts = 1

\* ------------------------------------------------------ runs that go on
\* main is a sequential program: whenever it can take a step it takes one
\* the command lines of these runs: with and without an encoder, with and
\* without a filter; the filter is the one that gives several frames a push
InitLive ==
    /\ codec_name \in {"libmp3lame", ""}
    /\ quality_str = NULLSTR
    /\ bitrate_str = NULLSTR
    /\ filter_desc \in {"duplicate", ""}
    /\ input_rate = 44100
    /\ codec_frame_size = (IF codec_name # "" THEN 2 ELSE 0)
    /\ MainEntry

SpecLive == InitLive /\ [][Next]_vars /\ WF_vars(Next)

\* C33: on an input of finitely many packets (at most MaxReads) main leaves
\* the streaming loop: every pull loop ends, from the loop main gets to the
\* end-of-stream sequence, whether by end of file, by a read error or by a
\* failed frame allocation, and from there to the end, where it has printed
\* its message, audio_enc_finalize has been called if there is an encoder,
\* and no resource of the three components is live.
C33_DriverReachesFinalizeAndEnd ==
    /\ [](reads <= MaxReads)
    /\ (pc = "pull") ~> (pc = "loop")
    /\ (pc = "loop") ~> (pc = "finalize")
    /\ (pc = "finalize") ~> (pc = "done" /\ finished)
    /\ []((pc = "done" /\ finished) =>
            /\ Live(heap) = {}
            /\ use_encoder => finalize_ret # 1
            /\ ~decoder.open /\ ~filter.graph /\ ~encoder.codec_ctx)

C33_Witness ==
    /\ pc = "done" /\ finished /\ reads = MaxReads
    /\ use_filter /\ use_encoder /\ any_error
    /\ last_read.ret = 1 /\ finalize_ret = 0
    /\ Live(heap) = {}

\* ------------------------------------------- a codec that keeps frames
\* What a call can meet with a codec that does not hand out one frame per
\* packet: a packet of two frames ("frames2"); a packet whose frame is not
\* out yet, avcodec_receive_frame saying EAGAIN ("delayed"); and, while the
\* codec holds a frame, avcodec_send_packet answering EAGAIN
\* ("send_eagain"), which libavcodec does when its own packet buffer is
\* still taken.  A codec that holds a frame does not say EAGAIN on receive.
CodecOutcomes(d, more) ==
    {o \in ReadOutcomes(more) : d.held # <<>> => o.kind # "eagain"}
    \cup IF more
         THEN {[kind |-> k, n |-> n] : k \in {"frames2", "delayed"}, n \in 1..MaxBlock}
              \cup IF d.held # <<>> THEN {[kind |-> "send_eagain", n |-> 0]} ELSE {}
         ELSE {}

\* the step of main in the streaming loop, with such a codec
MainReadCodec == ReadStep(CodecOutcomes(decoder, reads < MaxReads))

\* the command lines of these runs: raw PCM output, with and without a filter
InitCodec ==
    /\ codec_name = ""
    /\ quality_str = NULLSTR
    /\ bitrate_str = NULLSTR
    /\ filter_desc \in {"volume=0.5", ""}
    /\ input_rate = 44100
    /\ codec_frame_size = 0
    /\ MainEntry

NextCodec == MainInit \/ MainReadCodec \/ MainPull \/ MainFinalize \/ MainCleanup

SpecCodec == InitCodec /\ [][NextCodec]_vars

\* C34: as stated, the decoder delivers every frame the codec produces: when
\* the stream has ended and no library call has failed, every sample decoded
\* so far has been returned to main, in order, the codec holds no frame, and
\* no packet was dropped because the codec could not take it.
C34_Claimed_EveryFrameDelivered ==
    (pc = "finalize" /\ faults = 0) =>
        /\ decoder.held = <<>>
        /\ decoder.dropped = 0
        /\ dec_out = [i \in 1..(decoder.next - 1) |-> i]

\* C35: as stated, every stage that keeps samples is flushed before the
\* output is finalized: when main comes to the end-of-stream sequence of a
\* filtered stream in which no library call failed, the filter graph holds
\* no sample, neither unframed nor as a frame waiting at its sink.
C35_Claimed_GraphFlushedBeforeFinalize ==
    (pc = "finalize" /\ use_filter /\ filter.graph /\ faults = 0) =>
        /\ filter.buf = <<>>
        /\ filter.queue = <<>>

\* C36: as stated, on every path through an iteration of the loop the PCM
\* buffer audio_decoder_read gave and every frame allocated in the iteration
\* are released exactly once: after the last read and its loop body the
\* buffer has been freed as often as one was given and the input frame as
\* often as one was allocated, and so has the frame of the last pull.
C36_Claimed_LoopBuffersReleasedOnce ==
    /\ last_read.buf_frees = last_read.bufs
    /\ last_read.frame_frees = last_read.frames
    /\ last_pull.frame_frees = last_pull.frames

\* C37: once main is past audio_enc_free, or has stopped because an init
\* failed, the encoder struct is all-zero (the history aside): a write of a
\* block or of NULL and a finalize then return AVERROR(EINVAL) and leave the
\* struct as it is, whatever the libraries would do, and another
\* audio_enc_free changes nothing and releases nothing.
C37_FreedEncoderRejectsCalls ==
    (pc \in {"cleanup", "done"}) =>
        /\ encoder = ZeroEnc(encoder)
        /\ \A n \in 0..MaxBlock :
             \A fault \in {NoFault} \cup {Fault(s, 0) : s \in WriteStages \cup FlushStages} :
                 /\ audio_enc_write_frame(
                        encoder,
                        IF n = 0 THEN NULLFRAME ELSE NextBlock(n), fault)
                    = [ret |-> AVERROR(EINVAL), e |-> encoder]
                 /\ audio_enc_finalize(encoder, fault)
                    = [ret |-> AVERROR(EINVAL), e |-> encoder]
        /\ audio_enc_free(encoder) = encoder
        /\ audio_enc_free_heap(EncHeldBy(encoder)) = <<>>

C37_Witness ==
    /\ pc = "cleanup" /\ use_encoder /\ finalize_ret = 0
    /\ Len(encoder.sent) >= 3 /\ encoder.fifo_in # <<>>
    /\ ~encoder.fmt_ctx /\ ~encoder.codec_ctx

\* C38: after every audio_filter_pull, *out_frame is non-NULL exactly when
\* the call returned >= 0.  Of a successful call the caller has the one
\* frame the call allocated; a failed call has released the frame it
\* allocated, if it got one, and left NULL.  This holds of the last call
\* main made and of every call it could make next, whatever the graph says.
C38_PullFrameIffSuccess ==
    /\ last_pull.ret # 1 =>
         /\ ~last_pull.out_null <=> last_pull.ret >= 0
         /\ last_pull.ret < 0 => last_pull.frame_frees = last_pull.frames
    /\ (pc \in {"loop", "pull"} /\ filter.graph) =>
         \A out \in PullOutcomes(filter) :
             \A p \in {audio_filter_pull(filter, out)} :
                 /\ ~p.out_frame.null <=> p.ret >= 0
                 /\ p.allocs = (IF out.kind = "enomem" THEN 0 ELSE 1)
                 /\ p.ret >= 0 => p.frees = 0 /\ Len(p.out_frame.data) >= 1
                 /\ p.ret < 0 => p.frees = p.allocs /\ p.f = filter

C38_Witness ==
    /\ pc = "loop" /\ filter.graph /\ pulled # <<>>
    /\ last_pull.ret = AVERROR(EAGAIN) /\ last_pull.out_null
    /\ last_pull.frames = 1 /\ last_pull.frame_frees = 1

====
